---- MODULE Spec2Model ----
(***************************************************************************)
(* Verification model of the PKI/CMS signing tool.                         *)
(*                                                                         *)
(* Part 1: the signature engine of src/lib/pki-utils.ts                    *)
(*   PKIUtils.signData        (detached-combined envelope)                 *)
(*   PKIUtils.signData        (legacy, encapsulated envelope)              *)
(*   PKIUtils.verifySignature (detached attempt, legacy fallback)          *)
(*                                                                         *)
(* Buffers are sequences of byte values.  The ASN.1 and crypto library     *)
(* (pkijs / asn1js / WebCrypto) is not part of the repository; it is       *)
(* modelled by a small tag-length-value encoding with the SEQUENCE tag of  *)
(* DER in front, and by a signature that binds the signing key to a        *)
(* collision-free digest of the signed bytes.                              *)
(***************************************************************************)
EXTENDS Integers, Sequences, FiniteSets, TLC

\* ------------------------------------------------------------------ bounds
MaxPayload == 2     \* longest payload handed to signData
MaxChain   == 1     \* longest additional CA chain handed to signData
NumCerts   == 2     \* certificates 1..NumCerts
NumKeys    == 2     \* private keys 1..NumKeys
MaxRaw     == 5     \* longest buffer that is handed to verifySignature as is
MaxBuf     == 3     \* longest of the short buffers that are armoured
MaxBody    == 4     \* longest hand-written armour body
MaxPieces  == 3     \* most pieces in a certificate file
MaxChunks  == 3     \* most chunks the peer sends on one connection

\* -------------------------------------------------------- program constants
PrefixLen     == 4      \* the 4-byte signature length header
SpareBytes    == 1024   \* "extra space for headers" in the combined buffer
TagSequence   == 48     \* 0x30, first byte of every DER ContentInfo
OidData       == 1      \* stands for '1.2.840.113549.1.7.1'
OidSignedData == 2      \* stands for '1.2.840.113549.1.7.2'

\* ------------------------------------------------------------- value sets
PayloadBytes == {0, 48}          \* byte values of the payloads that are signed
ByteVals     == {0, 4, 48}       \* byte values written by out-of-band changes
Keys         == 1..NumKeys
Certs        == 1..NumCerts
OtherCertTag == 0                \* a certificate-set item that is no Certificate
NoCert       == <<>>             \* the optional `certificate` argument left out

\* An optional value: <<>> is undefined, <<v>> is v.
Undefined == <<>>
Some(v)   == <<v>>

\* The public key a certificate carries (its private key is the same number).
PubKeyOf(c) == ((c - 1) % NumKeys) + 1

RECURSIVE SeqsUpTo(_, _)
SeqsUpTo(S, n) ==
    IF n = 0 THEN {<<>>}
    ELSE LET shorter == SeqsUpTo(S, n - 1)
         IN  shorter \cup {Append(s, x) : s \in {t \in shorter : Len(t) = n - 1}, x \in S}

Payloads == SeqsUpTo(PayloadBytes, MaxPayload)
Chains   == SeqsUpTo(Certs, MaxChain)

\* ---------------------------------------------------------- byte helpers
\* DataView.setUint32(0, n, false): big-endian
SetUint32(n) ==
    << (n \div 16777216) % 256, (n \div 65536) % 256, (n \div 256) % 256, n % 256 >>

\* DataView.getUint32(0, false): big-endian
GetUint32(b) == b[1] * 16777216 + b[2] * 65536 + b[3] * 256 + b[4]

\* ArrayBuffer.slice(begin, end), 0-based, end exclusive, clamped
Slice(b, begin, end) ==
    LET e == IF end > Len(b) THEN Len(b) ELSE end
    IN  IF begin >= e THEN <<>> ELSE SubSeq(b, begin + 1, e)

\* --------------------------------------------------- crypto library model
\* SHA-256 as a collision-free digest: a positional code of the bytes
\* (digits 1..49 in base 50), written as four bytes.
RECURSIVE HashNum(_)
HashNum(d) == IF d = <<>> THEN 0 ELSE (Head(d) + 1) + 50 * HashNum(Tail(d))

Digest(d) == SetUint32(HashNum(d))

\* crypto.signWithPrivateKey: the signature names the key and the digest
CryptoSign(key, data) == <<key>> \o Digest(data)

\* crypto.verifyWithPublicKey
CryptoVerify(pub, signature, data) == signature = <<pub>> \o Digest(data)

SigLen == Len(CryptoSign(1, <<>>))

\* ----------------------------------------------------- ASN.1 library model
\* A SignedData value: certs (certificate set, in order), hasE/eContent
\* (encapsulated content), sid (issuer and serial number of the signer,
\* identified by the certificate number) and the signature value.
NewSignedData(certs, hasE, eContent, sid) ==
    [certs |-> certs, hasE |-> hasE, eContent |-> eContent, sid |-> sid,
     signature |-> <<>>]

\* ContentInfo.toSchema().toBER()
ToBER(contentType, sd) ==
    LET body == <<contentType, Len(sd.certs)>> \o sd.certs
                \o (IF sd.hasE THEN <<1, Len(sd.eContent)>> \o sd.eContent ELSE <<0>>)
                \o <<sd.sid>> \o sd.signature
    IN  <<TagSequence, Len(body)>> \o body

\* asn1js.fromBER: offset -1 when the bytes are no complete element;
\* bytes after the element are ignored.
FromBER(b) ==
    IF Len(b) >= 2 /\ b[2] < 128 /\ Len(b) >= 2 + b[2]
    THEN [offset |-> 2 + b[2], tag |-> b[1], content |-> SubSeq(b, 3, 2 + b[2])]
    ELSE [offset |-> -1, tag |-> 0, content |-> <<>>]

\* new pkijs.ContentInfo({schema}) followed by new pkijs.SignedData({schema}):
\* ok = FALSE when either constructor throws on a schema mismatch.
BadSignedData == [ok |-> FALSE, sd |-> NewSignedData(<<>>, FALSE, <<>>, 0)]

ParseSignedData(asn) ==
    LET c == asn.content
        n == c[2]
        p == 3 + n                       \* index of the eContent flag
        hasE == c[p] = 1
        elen == IF hasE THEN c[p + 1] ELSE 0
        q == IF hasE THEN p + 2 + elen ELSE p + 1   \* index of sid
    IN  IF asn.tag # TagSequence \/ Len(c) < 2 THEN BadSignedData
        ELSE IF c[1] \notin {OidData, OidSignedData} THEN BadSignedData
        ELSE IF Len(c) < p THEN BadSignedData
        ELSE IF \E i \in 3..(2 + n) : c[i] \notin Certs \cup {OtherCertTag} THEN BadSignedData
        ELSE IF c[p] \notin {0, 1} THEN BadSignedData
        ELSE IF hasE /\ Len(c) < p + 1 THEN BadSignedData
        ELSE IF Len(c) # q + SigLen THEN BadSignedData
        ELSE [ok |-> TRUE,
              sd |-> [certs |-> SubSeq(c, 3, 2 + n), hasE |-> hasE,
                      eContent |-> IF hasE THEN SubSeq(c, p + 2, p + 1 + elen) ELSE <<>>,
                      sid |-> c[q], signature |-> SubSeq(c, q + 1, q + SigLen)]]

\* pkijs SignedData.sign(privateKey, 0, 'SHA-256', data): signs the
\* encapsulated content when there is one, else the data passed in; with no
\* encapsulated content and zero bytes of data it throws
\* "Missed detached data input array".
CmsSign(sd, key, data) ==
    IF ~sd.hasE /\ data = <<>>
    THEN [threw |-> TRUE, error |-> "Missed detached data input array", sd |-> sd]
    ELSE [threw |-> FALSE, error |-> "",
          sd |-> [sd EXCEPT !.signature =
                     CryptoSign(key, IF sd.hasE THEN sd.eContent ELSE data)]]

\* pkijs SignedData.verify({signer: 0, trustedCerts, data}) with the default
\* checkChain = false: the signer certificate is the embedded certificate the
\* signer-info identifies, the trusted certificates are consulted only for
\* chain validation, which is off.  It throws when no embedded certificate
\* matches the signer-info or when a detached signature comes without data,
\* and else returns the outcome of the public-key check.
CmsVerify(sd, trustedCerts, data) ==
    LET tbs == IF sd.hasE THEN sd.eContent ELSE data
    IN  IF ~\E i \in 1..Len(sd.certs) : sd.certs[i] \in Certs /\ sd.certs[i] = sd.sid
        THEN [threw |-> TRUE, error |-> "Unable to find signer certificate", result |-> FALSE]
        ELSE IF ~sd.hasE /\ data = <<>>
        THEN [threw |-> TRUE, error |-> "Missed detached data input array", result |-> FALSE]
        ELSE [threw |-> FALSE, error |-> "",
              result |-> CryptoVerify(PubKeyOf(sd.sid), sd.signature, tbs)]

\* ------------------------------------------------------ PKIUtils.signData
Returned(bytes) == [threw |-> FALSE, error |-> "", bytes |-> bytes]
Threw(msg)      == [threw |-> TRUE, error |-> msg, bytes |-> <<>>]

\* The combined buffer of signData before the final slice: 4-byte length,
\* signature structure, payload, and the unused spare bytes (zero).
CombinedBuffer(signatureBuffer, data) ==
    LET L == Len(signatureBuffer)
        combinedSize == L + Len(data) + SpareBytes
        header == SetUint32(L)
    IN  [i \in 1..combinedSize |->
            IF i <= PrefixLen THEN header[i]
            ELSE IF i <= PrefixLen + L THEN signatureBuffer[i - PrefixLen]
            ELSE IF i <= PrefixLen + L + Len(data) THEN data[i - PrefixLen - L]
            ELSE 0]

\* mutant: the signer certificate is embedded after the additional chain
signData_chainFirst(data, privateKey, certificate, caChain) ==
    LET cmsSignedData == NewSignedData(caChain \o <<certificate>>, FALSE, <<>>, certificate)
        signed == CmsSign(cmsSignedData, privateKey, data)
        signatureBuffer == ToBER(OidSignedData, signed.sd)
    IN  IF signed.threw THEN Threw(signed.error)
        ELSE Returned(Slice(CombinedBuffer(signatureBuffer, data), 0,
                            PrefixLen + Len(signatureBuffer) + Len(data)))

\* mutant: the whole combined buffer is returned, spare bytes included
signData_noSlice(data, privateKey, certificate, caChain) ==
    LET cmsSignedData == NewSignedData(<<certificate>> \o caChain, FALSE, <<>>, certificate)
        signed == CmsSign(cmsSignedData, privateKey, data)
    IN  IF signed.threw THEN Threw(signed.error)
        ELSE Returned(CombinedBuffer(ToBER(OidSignedData, signed.sd), data))

\* mutant: the signer-info names the first certificate of the chain
signData_sidOfChain(data, privateKey, certificate, caChain) ==
    LET cmsSignedData == NewSignedData(<<certificate>> \o caChain, FALSE, <<>>,
                                       IF caChain = <<>> THEN certificate ELSE caChain[1])
        signed == CmsSign(cmsSignedData, privateKey, data)
        signatureBuffer == ToBER(OidSignedData, signed.sd)
    IN  IF signed.threw THEN Threw(signed.error)
        ELSE Returned(Slice(CombinedBuffer(signatureBuffer, data), 0,
                            PrefixLen + Len(signatureBuffer) + Len(data)))

\* PKIUtils.signData of src/lib/pki-utils.ts (detached-combined)
signData(data, privateKey, certificate, caChain) ==
    LET cmsSignedData == NewSignedData(<<certificate>> \o caChain, FALSE, <<>>, certificate)
        signed == CmsSign(cmsSignedData, privateKey, data)
        signatureBuffer == ToBER(OidSignedData, signed.sd)
    IN  IF signed.threw THEN Threw(signed.error)
        ELSE Returned(Slice(CombinedBuffer(signatureBuffer, data), 0,
                            PrefixLen + Len(signatureBuffer) + Len(data)))

\* PKIUtils.signData of the earlier revision (encapsulated content)
signDataEncapsulated(data, privateKey, certificate, caChain) ==
    LET cmsSignedData == NewSignedData(<<certificate>> \o caChain, TRUE, data, certificate)
        signed == CmsSign(cmsSignedData, privateKey, <<>>)
    IN  IF signed.threw THEN Threw(signed.error)
        ELSE Returned(ToBER(OidSignedData, signed.sd))

\* ----------------------------------------------- PKIUtils.verifySignature
\* What one attempt of verifySignature did.
\*   ran        the attempt was executed
\*   raised     it ended in an exception (error = its message)
\*   parsedOf   <<b>> when asn1js.fromBER was called on the bytes b
\*   trusted    <<c>> when cmsSignedData.verify was called with trustedCerts [c]
\*   the other fields are the object it returned (when raised = FALSE)
NotRun ==
    [ran |-> FALSE, raised |-> FALSE, error |-> "", parsedOf |-> Undefined,
     trusted |-> Undefined, verified |-> FALSE, data |-> Undefined,
     certificate |-> Undefined, certificateChain |-> Undefined]

Raise(msg, parsedOf, trusted) ==
    [NotRun EXCEPT !.ran = TRUE, !.raised = TRUE, !.error = msg,
                   !.parsedOf = parsedOf, !.trusted = trusted]

\* mutant: the embedded certificate wins over the caller's
SelectVerificationCert_embeddedFirst(certificate, sd) ==
    IF Len(sd.certs) > 0 /\ sd.certs[1] \in Certs THEN Some(sd.certs[1])
    ELSE certificate

\* let verificationCert = certificate; if (!verificationCert && certificates
\* && certificates.length > 0) { certItem = certificates[0]; if (certItem
\* instanceof Certificate) verificationCert = certItem }
SelectVerificationCert(certificate, sd) ==
    IF certificate # NoCert THEN certificate
    ELSE IF Len(sd.certs) > 0 /\ sd.certs[1] \in Certs THEN Some(sd.certs[1])
    ELSE Undefined

\* all certificates of the signature that are Certificate instances, in order
AllCertificates(sd) == SelectSeq(sd.certs, LAMBDA c : c \in Certs)

\* The part the two attempts share: parse `toParse`, choose the certificate,
\* verify (with `external` as detached data when isDetached), build the result.
ParseAndVerify(toParse, certificate, isDetached, external) ==
    LET asn1 == FromBER(toParse)
        parsed == ParseSignedData(asn1)
        cmsSignedData == parsed.sd
        verificationCert == SelectVerificationCert(certificate, cmsSignedData)
        verification == CmsVerify(cmsSignedData, verificationCert,
                                  IF isDetached THEN external ELSE <<>>)
        originalData == IF isDetached THEN Some(external)
                        ELSE IF cmsSignedData.hasE THEN Some(cmsSignedData.eContent)
                        ELSE Undefined
        allCertificates == AllCertificates(cmsSignedData)
    IN  IF asn1.offset = -1
        THEN Raise(IF isDetached THEN "Cannot parse signature - invalid ASN.1 structure"
                   ELSE "Cannot parse signed data - invalid ASN.1 structure",
                   Some(toParse), Undefined)
        ELSE IF ~parsed.ok
        THEN Raise("Object's schema was not verified against input data", Some(toParse), Undefined)
        ELSE IF verificationCert = Undefined
        THEN Raise("No certificate found in signature and none provided", Some(toParse), Undefined)
        ELSE IF verification.threw
        THEN Raise(verification.error, Some(toParse), verificationCert)
        ELSE [ran |-> TRUE, raised |-> FALSE, error |-> "", parsedOf |-> Some(toParse),
              trusted |-> verificationCert,
              verified |-> verification.result,
              data |-> originalData,
              certificate |-> verificationCert,
              certificateChain |-> IF Len(allCertificates) > 0
                                   THEN Some(allCertificates) ELSE Undefined]

\* the message of the error thrown on a length prefix out of bounds
FramingError == "Invalid combined signature format"

\* mutant: the upper bound of the length check is missing
InvalidLength_noUpperBound(signatureLength, byteLength) ==
    signatureLength <= 0

\* mutant: the lower bound of the length check is 4 instead of 0
InvalidLength_min4(signatureLength, byteLength) ==
    signatureLength <= PrefixLen \/ signatureLength > byteLength - PrefixLen

\* signatureLength <= 0 || signatureLength > combinedData.byteLength - 4
InvalidLength(signatureLength, byteLength) ==
    signatureLength <= 0 \/ signatureLength > byteLength - PrefixLen

\* mutant: the trailing payload is not handed to the verification
DetachedAttempt_noExternalData(combinedData, certificate) ==
    IF Len(combinedData) < PrefixLen
    THEN Raise("Offset is outside the bounds of the DataView", Undefined, Undefined)
    ELSE LET signatureLength == GetUint32(combinedData)
             signatureData == Slice(combinedData, PrefixLen, PrefixLen + signatureLength)
         IN  IF InvalidLength(signatureLength, Len(combinedData))
             THEN Raise(FramingError, Undefined, Undefined)
             ELSE ParseAndVerify(signatureData, certificate, TRUE, <<>>)

\* the try block of verifySignature
DetachedAttempt(combinedData, certificate) ==
    IF Len(combinedData) < PrefixLen
    THEN Raise("Offset is outside the bounds of the DataView", Undefined, Undefined)
    ELSE LET signatureLength == GetUint32(combinedData)
             signatureData == Slice(combinedData, PrefixLen, PrefixLen + signatureLength)
             originalData == Slice(combinedData, PrefixLen + signatureLength, Len(combinedData))
         IN  IF InvalidLength(signatureLength, Len(combinedData))
             THEN Raise(FramingError, Undefined, Undefined)
             ELSE ParseAndVerify(signatureData, certificate, TRUE, originalData)

\* mutant: the embedded payload is not extracted
LegacyAttempt_noContent(combinedData, certificate) ==
    [ParseAndVerify(combinedData, certificate, FALSE, <<>>) EXCEPT !.data = Undefined]

\* the inner try block of the catch clause of verifySignature
LegacyAttempt(combinedData, certificate) ==
    ParseAndVerify(combinedData, certificate, FALSE, <<>>)

\* mutant: a negative verdict is retried as legacy, too
FallbackTaken_onFalse(det) == det.raised \/ ~det.verified

\* whether the catch clause (the legacy attempt) is entered
FallbackTaken(det) == det.raised

\* What verifySignature hands to its caller.
NoResult ==
    [state |-> "none", verified |-> FALSE, data |-> Undefined,
     certificate |-> Undefined, certificateChain |-> Undefined, error |-> ""]

ResultOf(att) ==
    [state |-> "returned", verified |-> att.verified, data |-> att.data,
     certificate |-> att.certificate, certificateChain |-> att.certificateChain,
     error |-> ""]

\* throw new Error(`Signature verification failed: ${error.message}`), where
\* error is the exception of the detached attempt
FailureOf(det) == [NoResult EXCEPT !.state = "threw", !.error = det.error]

\* mutant: a double failure is reported as a negative verdict
Outcome_falseOnFailure(det, leg) ==
    IF ~det.raised THEN ResultOf(det)
    ELSE IF leg.ran /\ ~leg.raised THEN ResultOf(leg)
    ELSE [NoResult EXCEPT !.state = "returned"]

Outcome(det, leg) ==
    IF ~det.raised THEN ResultOf(det)
    ELSE IF leg.ran /\ ~leg.raised THEN ResultOf(leg)
    ELSE FailureOf(det)

\* ====================================================================
\* PEM armour (pki-utils.ts 304-342) and certificate files (22-48)
\*
\* A text is a sequence of characters. 0..63 are the characters of the
\* base64 alphabet in alphabet order ('A' = 0, 'a' = 26, '0' = 52, '+' = 62,
\* '/' = 63); the other characters a text can hold are named below.
\* ====================================================================
Pad   == 64      \* '='
NL    == 65      \* line feed
Space == 66      \* ' '
Dash  == 67      \* '-'
Star  == 68      \* '*', a character that is neither base64 nor whitespace

LineWidth == 64  \* /.{1,64}/g

Whitespace == {NL, Space}              \* what /\s/ matches among these characters
Alphabet   == 0..63

\* F applied to the value v (const v = ...; and then the code that uses it)
With(v, F(_)) == F(v)

Dashes5   == <<Dash, Dash, Dash, Dash, Dash>>
WordBEGIN == <<1, 4, 6, 8, 13>>        \* "BEGIN"
WordEND   == <<4, 13, 3>>              \* "END"

PemTypes == {"CERTIFICATE", "PRIVATE KEY", "PKCS11"}

Label(type) ==
    CASE type = "CERTIFICATE" -> <<2, 4, 17, 19, 8, 5, 8, 2, 0, 19, 4>>
      [] type = "PRIVATE KEY" -> <<15, 17, 8, 21, 0, 19, 4, Space, 10, 4, 24>>
      [] type = "PKCS11"      -> <<15, 10, 2, 18, 53, 53>>

\* `-----BEGIN ${type}-----` and `-----END ${type}-----`
BeginLine(type) == Dashes5 \o WordBEGIN \o <<Space>> \o Label(type) \o Dashes5
EndLine(type)   == Dashes5 \o WordEND \o <<Space>> \o Label(type) \o Dashes5

\* ------------------------------------------------------------- base64
\* btoa(String.fromCharCode(...bytes)): three bytes to four characters,
\* '=' padding after a final group of one or two bytes
RECURSIVE Btoa(_)
Btoa(b) ==
    IF Len(b) = 0 THEN <<>>
    ELSE IF Len(b) = 1 THEN
        LET n == b[1] * 16 IN <<n \div 64, n % 64, Pad, Pad>>
    ELSE IF Len(b) = 2 THEN
        LET n == (b[1] * 256 + b[2]) * 4
        IN  <<n \div 4096, (n \div 64) % 64, n % 64, Pad>>
    ELSE
        LET n == b[1] * 65536 + b[2] * 256 + b[3]
        IN  <<n \div 262144, (n \div 4096) % 64, (n \div 64) % 64, n % 64>>
              \o Btoa(SubSeq(b, 4, Len(b)))

\* the bytes of a run of base64 characters without padding; a final group
\* of two or three characters gives one or two bytes, spare bits dropped
RECURSIVE DecodeGroups(_)
DecodeGroups(s) ==
    IF Len(s) < 2 THEN <<>>
    ELSE IF Len(s) = 2 THEN <<(s[1] * 64 + s[2]) \div 16>>
    ELSE IF Len(s) = 3 THEN
        LET n == (s[1] * 4096 + s[2] * 64 + s[3]) \div 4
        IN  <<n \div 256, n % 256>>
    ELSE
        LET n == s[1] * 262144 + s[2] * 4096 + s[3] * 64 + s[4]
        IN  <<n \div 65536, (n \div 256) % 256, n % 256>>
              \o DecodeGroups(SubSeq(s, 5, Len(s)))

\* atob (forgiving-base64 decode): whitespace is dropped, one or two '=' are
\* dropped from the end of a text whose length is a multiple of 4, and what
\* is left must be base64 characters with a length that is not 1 modulo 4;
\* ok = FALSE is the InvalidCharacterError DOMException.
WithoutPadding(s) ==
    IF Len(s) % 4 = 0 /\ Len(s) > 0 /\ s[Len(s)] = Pad
    THEN SubSeq(s, 1, Len(s) - (IF s[Len(s) - 1] = Pad THEN 2 ELSE 1))
    ELSE s

Atob(text) ==
    With(WithoutPadding(SelectSeq(text, LAMBDA ch : ch \notin Whitespace)), LAMBDA t :
        IF Len(t) % 4 = 1 \/ \E i \in 1..Len(t) : t[i] \notin Alphabet
        THEN [ok |-> FALSE, bytes |-> <<>>]
        ELSE [ok |-> TRUE, bytes |-> DecodeGroups(t)])

\* --------------------------------------------------------- text search
\* the least index >= from at which pat occurs in s, 0 when there is none
IndexOf(s, pat, from) ==
    With({j \in from..(Len(s) - Len(pat) + 1) : SubSeq(s, j, j + Len(pat) - 1) = pat},
         LAMBDA hits : IF hits = {} THEN 0 ELSE CHOOSE j \in hits : \A k \in hits : j <= k)

\* the first match of /-----WORD[^-]*-----/ in s as <<first, last>>, or <<>>:
\* after "-----WORD" the next '-' must start a run of five
RECURSIVE MatchMarker(_, _, _)
MatchMarker(s, word, from) ==
    With(IndexOf(s, Dashes5 \o word, from), LAMBDA i :
        IF i = 0 THEN <<>>
        ELSE With(IndexOf(s, <<Dash>>, i + 5 + Len(word)), LAMBDA k :
                IF k # 0 /\ k + 4 <= Len(s) /\ SubSeq(s, k, k + 4) = Dashes5
                THEN <<i, k + 4>>
                ELSE MatchMarker(s, word, i + 1)))

\* String.replace(/-----WORD[^-]*-----/, ''): the first match only
RemoveMarker(s, word) ==
    With(MatchMarker(s, word, 1), LAMBDA m :
        IF m = <<>> THEN s
        ELSE SubSeq(s, 1, m[1] - 1) \o SubSeq(s, m[2] + 1, Len(s)))

\* ------------------------------------------------------------ the codec
\* base64.match(/.{1,64}/g)?.join('\n') || ''
RECURSIVE Formatted(_)
Formatted(base64) ==
    IF Len(base64) <= LineWidth THEN base64
    ELSE SubSeq(base64, 1, LineWidth) \o <<NL>>
           \o Formatted(SubSeq(base64, LineWidth + 1, Len(base64)))

\* mutant: no line break is put into the body
arrayBufferToPem_oneLine(buffer, type) ==
    BeginLine(type) \o <<NL>> \o Btoa(buffer) \o <<NL>> \o EndLine(type)

\* PKIUtils.arrayBufferToPem
arrayBufferToPem(buffer, type) ==
    BeginLine(type) \o <<NL>> \o Formatted(Btoa(buffer)) \o <<NL>> \o EndLine(type)

\* what pemToArrayBuffer hands to atob: the first BEGIN marker, the first
\* END marker and all whitespace removed
Base64Of(pem) ==
    SelectSeq(RemoveMarker(RemoveMarker(pem, WordBEGIN), WordEND),
              LAMBDA ch : ch \notin Whitespace)

NoContent      == "Invalid PEM format: no content found"
BadPadding     == "Invalid base64 encoding: incorrect padding"
BadBase64      == "Invalid base64 encoding in PEM file"

\* mutant: the length of the text is not checked before atob
pemToArrayBuffer_noLengthCheck(pem) ==
    With(Base64Of(pem), LAMBDA base64 :
    With(Atob(base64), LAMBDA binaryString :
        IF Len(base64) = 0 THEN Threw(NoContent)
        ELSE IF ~binaryString.ok THEN Threw(BadBase64)
        ELSE Returned(binaryString.bytes)))

\* PKIUtils.pemToArrayBuffer
pemToArrayBuffer(pem) ==
    With(Base64Of(pem), LAMBDA base64 :
    With(Atob(base64), LAMBDA binaryString :
        IF Len(base64) = 0 THEN Threw(NoContent)
        ELSE IF Len(base64) % 4 # 0 THEN Threw(BadPadding)
        ELSE IF ~binaryString.ok THEN Threw(BadBase64)
        ELSE Returned(binaryString.bytes)))

\* ----------------------------------------------------- certificate files
\* The DER of certificate c: a SEQUENCE holding the certificate's number.
CertDer(c) == <<TagSequence, 1, c>>

\* new pkijs.Certificate({schema}): <<>> when the constructor throws because
\* the element is no certificate
NewCertificate(asn) ==
    IF asn.tag = TagSequence /\ Len(asn.content) = 1 /\ asn.content[1] \in Certs
    THEN Some(asn.content[1]) ELSE Undefined

\* pemData.match(/-----BEGIN CERTIFICATE-----[\s\S]*?-----END CERTIFICATE-----/g):
\* each block runs from a BEGIN line to the nearest END line after it, and
\* the search goes on behind the block
RECURSIVE CertBlocksFrom(_, _)
CertBlocksFrom(pemData, from) ==
    With(IndexOf(pemData, BeginLine("CERTIFICATE"), from), LAMBDA i :
        IF i = 0 THEN <<>>
        ELSE With(IndexOf(pemData, EndLine("CERTIFICATE"), i + Len(BeginLine("CERTIFICATE"))),
                  LAMBDA j :
                IF j = 0 THEN <<>>
                ELSE <<SubSeq(pemData, i, j + Len(EndLine("CERTIFICATE")) - 1)>>
                       \o CertBlocksFrom(pemData, j + Len(EndLine("CERTIFICATE")))))

CertBlocks(pemData) == CertBlocksFrom(pemData, 1)

NoCertificates == "No certificates found in the provided file"
BadAsn1        == "Cannot parse certificate - invalid ASN.1 structure"
BadSchema      == "Object's schema was not verified against input data for Certificate"
ChainFailed    == "Certificate chain parsing failed: "

\* one pass of the for loop: [error, certificate]
ParseBlock(certBlock) ==
    With(pemToArrayBuffer(certBlock), LAMBDA buffer :
    With(FromBER(buffer.bytes), LAMBDA asn1 :
    With(NewCertificate(asn1), LAMBDA certificate :
        IF buffer.threw THEN [error |-> buffer.error, certificate |-> Undefined]
        ELSE IF asn1.offset = -1 THEN [error |-> BadAsn1, certificate |-> Undefined]
        ELSE IF certificate = Undefined THEN [error |-> BadSchema, certificate |-> Undefined]
        ELSE [error |-> "", certificate |-> certificate])))

ChainReturned(certificates) == [threw |-> FALSE, error |-> "", certificates |-> certificates]
ChainThrew(msg) == [threw |-> TRUE, error |-> ChainFailed \o msg, certificates |-> <<>>]

\* the loop over the blocks: the first block that fails ends the call
RECURSIVE ParseBlocks(_, _)
ParseBlocks(certBlocks, certificates) ==
    IF certBlocks = <<>> THEN ChainReturned(certificates)
    ELSE With(ParseBlock(Head(certBlocks)), LAMBDA r :
            IF r.error # "" THEN ChainThrew(r.error)
            ELSE ParseBlocks(Tail(certBlocks), certificates \o r.certificate))

\* mutant: the certificates are returned in the order last block first
parseCertificateChain_pushFront(pemData) ==
    With(CertBlocks(pemData), LAMBDA certBlocks :
        IF Len(certBlocks) = 0 THEN ChainThrew(NoCertificates)
        ELSE With(ParseBlocks(certBlocks, <<>>), LAMBDA r :
                [r EXCEPT !.certificates =
                    [i \in 1..Len(r.certificates) |->
                        r.certificates[Len(r.certificates) + 1 - i]]]))

\* mutant: a block that fails is skipped and the others are returned
parseCertificateChain_skipsBad(pemData) ==
    With(CertBlocks(pemData), LAMBDA certBlocks :
        IF Len(certBlocks) = 0 THEN ChainThrew(NoCertificates)
        ELSE With(SelectSeq(certBlocks, LAMBDA b : ParseBlock(b).error = ""), LAMBDA good :
                ChainReturned([i \in 1..Len(good) |-> ParseBlock(good[i]).certificate[1]])))

\* PKIUtils.parseCertificateChain
parseCertificateChain(pemData) ==
    With(CertBlocks(pemData), LAMBDA certBlocks :
        IF Len(certBlocks) = 0 THEN ChainThrew(NoCertificates)
        ELSE ParseBlocks(certBlocks, <<>>))

\* ====================================================================
\* The socket clients of the HSM (hsm-utils.ts 181-363: host and port,
\* 396-711: socket path)
\*
\* The peer sends bytes, which arrive in chunks. The bytes are told apart
\* as far as the clients tell them apart:
\*   "T"   the ASCII bytes  {"success":true,"data":"
\*   "c1", "c2"  the two bytes of one two-byte UTF-8 character of the data
\*   "}"   the ASCII bytes  "}
\*   "F"   the ASCII bytes  {"success":false,"error":"denied"}
\*   "nl"  a line feed
\*   "junk" ASCII text that is no JSON
\* ====================================================================
Response == <<"T", "c1", "c2", "}">>

\* a chunk is a piece of a success response, a failure response, a line
\* feed or junk
Chunks ==
    {SubSeq(Response, i, j) : <<i, j>> \in {ij \in (1..Len(Response)) \X (1..Len(Response)) : ij[1] <= ij[2]}}
        \cup {<<"F">>, <<"nl">>, <<"junk">>}

\* the character that an incomplete or misplaced UTF-8 byte decodes to
Replacement == "fffd"

\* data.toString(): the UTF-8 decoding of one chunk; a lead byte without its
\* continuation byte, and a continuation byte without its lead byte, each
\* decode to U+FFFD
RECURSIVE Utf8ToString(_)
Utf8ToString(data) ==
    IF data = <<>> THEN <<>>
    ELSE IF Head(data) = "c1" THEN
        IF Len(data) >= 2 /\ data[2] = "c2"
        THEN <<"ch">> \o Utf8ToString(SubSeq(data, 3, Len(data)))
        ELSE <<Replacement>> \o Utf8ToString(Tail(data))
    ELSE IF Head(data) = "c2" THEN <<Replacement>> \o Utf8ToString(Tail(data))
    ELSE <<Head(data)>> \o Utf8ToString(Tail(data))

\* String.prototype.trim, and the white space JSON.parse skips around a value
RECURSIVE Trim(_)
Trim(text) ==
    IF text = <<>> THEN <<>>
    ELSE IF Head(text) = "nl" THEN Trim(Tail(text))
    ELSE IF text[Len(text)] = "nl" THEN Trim(SubSeq(text, 1, Len(text) - 1))
    ELSE text

NoDoc == [valid |-> FALSE, success |-> FALSE, data |-> <<>>]

\* JSON.parse(text): the response object of one whole response; anything
\* else throws (valid = FALSE)
JsonParse(text) ==
    With(Trim(text), LAMBDA t :
        IF t = <<"F">> THEN [valid |-> TRUE, success |-> FALSE, data |-> <<>>]
        ELSE IF /\ Len(t) >= 2
                /\ t[1] = "T"
                /\ t[Len(t)] = "}"
                /\ \A i \in 2..(Len(t) - 1) : t[i] \in {"ch", Replacement}
        THEN [valid |-> TRUE, success |-> TRUE, data |-> SubSeq(t, 2, Len(t) - 1)]
        ELSE NoDoc)

Pending == [settled |-> FALSE, doc |-> NoDoc]

\* the 'data' listener of the host:port sendCommand on the accumulated
\* text: resolve with the parsed response once JSON.parse succeeds
TcpOnData(responseData) ==
    IF JsonParse(responseData).valid
    THEN [settled |-> TRUE, doc |-> JsonParse(responseData)]
    ELSE Pending

\* mutant: with a line feed in the text the listener still waits for JSON
UnixOnData_waitsForJson(responseData) ==
    IF \A i \in 1..Len(responseData) : responseData[i] # "nl" THEN Pending
    ELSE IF JsonParse(responseData).valid
    THEN [settled |-> TRUE, doc |-> JsonParse(responseData)]
    ELSE Pending

\* the 'data' listener of the socket-path sendCommand: nothing until the
\* text holds a line feed, then the parsed response, or { success: true,
\* data: the trimmed text } when JSON.parse throws
UnixOnData(responseData) ==
    IF \A i \in 1..Len(responseData) : responseData[i] # "nl" THEN Pending
    ELSE IF JsonParse(responseData).valid
    THEN [settled |-> TRUE, doc |-> JsonParse(responseData)]
    ELSE [settled |-> TRUE,
          doc |-> [valid |-> FALSE, success |-> TRUE, data |-> Trim(responseData)]]

OnData(cls, responseData) ==
    IF cls = "tcp" THEN TcpOnData(responseData) ELSE UnixOnData(responseData)

\* mutant: the socket-path signData authenticates before it signs
CommandsOf_unixAuthenticates(cls, kind) ==
    CASE cls = "tcp" /\ kind = "getCertificates"       -> <<"LIST_CERTIFICATES">>
      [] cls = "tcp" /\ kind = "signData"              -> <<"AUTHENTICATE", "SIGN_HASH">>
      [] cls = "tcp" /\ kind = "getCertificateDetails" -> <<"GET_CERTIFICATE">>
      [] cls = "tcp" /\ kind = "testConnection"        -> <<"PING">>
      [] cls = "unix" /\ kind = "signData"             -> <<"AUTHENTICATE", "SIGN_DATA">>
      [] cls = "unix" /\ kind = "testConnection"       -> <<"STATUS">>
      [] OTHER                                         -> <<>>

\* the commands an operation sends, in order
CommandsOf(cls, kind) ==
    CASE cls = "tcp" /\ kind = "getCertificates"       -> <<"LIST_CERTIFICATES">>
      [] cls = "tcp" /\ kind = "signData"              -> <<"AUTHENTICATE", "SIGN_HASH">>
      [] cls = "tcp" /\ kind = "getCertificateDetails" -> <<"GET_CERTIFICATE">>
      [] cls = "tcp" /\ kind = "testConnection"        -> <<"PING">>
      [] cls = "unix" /\ kind = "signData"             -> <<"SIGN_DATA">>
      [] cls = "unix" /\ kind = "testConnection"       -> <<"STATUS">>
      [] OTHER                                         -> <<>>

Classes == {"tcp", "unix"}

Methods(cls) ==
    IF cls = "tcp"
    THEN {"getCertificates", "signData", "getCertificateDetails", "testConnection"}
    ELSE {"getCertificates", "signData", "testConnection"}

\* what the filesystem lets the socket-path client find before it connects
PreChecks(cls, kind) ==
    CASE cls = "unix" /\ kind = "signData"        -> {"found", "missing", "error"}
      [] cls = "unix" /\ kind = "testConnection"  -> {"found", "missing"}
      [] cls = "unix" /\ kind = "getCertificates" -> {"found", "error"}
      [] OTHER                                    -> {"found"}

\* ----------------------------------------------------------- messages
ConnectTimeoutMsg(cls) ==
    IF cls = "tcp" THEN "HSM socket connection timeout"
    ELSE "HSM Unix socket connection timeout"
ConnectFailedMsg  == "HSM socket connection failed: ECONNREFUSED"
CommandTimeoutMsg == "HSM command timeout"
SocketErrorMsg    == "HSM socket error: ECONNRESET"
NotConnectedMsg   == "Socket not connected"
AuthFailedMsg     == "HSM authentication failed: denied"
CardMissingMsg    == "Softcard 'card' not found or invalid"
SocketMissingMsg  == "nFast socket file not found: /opt/nfast/sockets/nserver"
DiscoverFailedMsg == "Failed to discover softcards: nFast kmdata path not found: /opt/nfast/kmdata/local"

\* ------------------------------------------------------------ results
NoReply == [returned |-> FALSE, success |-> FALSE, error |-> "", data |-> <<>>]
Failure(msg) == [returned |-> TRUE, success |-> FALSE, error |-> msg, data |-> <<>>]
Success(data) == [returned |-> TRUE, success |-> TRUE, error |-> "", data |-> data]

\* what the socket-path testConnection returns as data when the response
\* has none
ConnectionOk == <<"nFast HSM connection successful">>

\* mutant: the socket-path testConnection returns the response as it is
ReplyOf_passesFlag(cls, kind, doc) ==
    IF doc.success THEN Success(doc.data)
    ELSE Failure("denied")

\* the result an operation makes of the response to its last command: the
\* response itself, but the socket-path testConnection makes success = true
\* and data = response.data || 'nFast HSM connection successful'
ReplyOf(cls, kind, doc) ==
    IF cls = "unix" /\ kind = "testConnection"
    THEN Success(IF doc.data = <<>> THEN ConnectionOk ELSE doc.data)
    ELSE IF doc.success THEN Success(doc.data)
    ELSE Failure("denied")

\* --------------------------------------------------------------------
\* The socket clients as a state machine. A step is one callback of the
\* event loop together with the part of the async method that it resumes:
\* up to the next sendCommand call, or to the return and the finally block.
\* --------------------------------------------------------------------
OpIds == {1, 2}

NoClient == [cls |-> "none", socket |-> 0]      \* socket: 0 is null, s is socket s
IdleOp == [kind |-> "none", pc |-> "idle", connects |-> 0, sent |-> 0, exit |-> "none",
           result |-> NoReply, connTimer |-> "none", cmdTimer |-> "none"]
NoSock == [state |-> "none", by |-> "none", log |-> <<>>, listeners |-> <<>>, recv |-> 0]

\* ====================================================================
\* The key store of the socket-path client (hsm-utils.ts 487-535, 538-578,
\* 612-622, 683-710): the directory kmDataPath, its entries, and the files of
\* the entries that are directories.
\*
\* A file name is the sequence of its parts: <<"a", ".crt">> is a.crt,
\* <<"key_", "1">> is key_1, <<"a", ".crt", ".bak">> is a.crt.bak.
\* ====================================================================
FileNames ==
    {<<"a", ".crt">>, <<"b", ".crt">>, <<"k", ".key">>, <<"key_", "1">>,
     <<"a", ".crt", ".bak">>}

CardNames == {"card1", "card2"}

\* the order in which fs.readdir lists the entries
ReaddirOrder == <<"card1", "card2">>

\* the order in which fs.readdir lists the files of a subdirectory
FileOrder ==
    <<<<"a", ".crt">>, <<"a", ".crt", ".bak">>, <<"b", ".crt">>, <<"k", ".key">>,
      <<"key_", "1">>>>

\* an entry of the directory: nothing of that name, a plain file, a
\* directory with its files, or a directory that fs.readdir cannot read
\* ("locked"), empty or with a certificate in it. The files in unreadable
\* are those that fs.readFile fails on; only the .crt files are ever read,
\* and a.crt is the one that can be unreadable.
Absent == [type |-> "absent", files |-> {}, unreadable |-> {}]
Entries ==
    {Absent, [type |-> "file", files |-> {}, unreadable |-> {}],
     [type |-> "locked", files |-> {}, unreadable |-> {}],
     [type |-> "locked", files |-> {<<"a", ".crt">>}, unreadable |-> {}]}
        \cup UNION {{[type |-> "dir", files |-> fs, unreadable |-> u] :
                         u \in SUBSET (fs \cap {<<"a", ".crt">>})} :
                     fs \in SUBSET FileNames}

RootStates == {"present", "missing", "unreadable"}

EmptyStore == [root |-> "present", entries |-> [n \in CardNames |-> Absent]]

\* file.endsWith(suffix), file.includes(part)
EndsWith(file, suffix) == file[Len(file)] = suffix
Includes(file, part) == \E i \in 1..Len(file) : file[i] = part

\* mutant: any file makes the directory a softcard
HasKeyFiles_anyFile(cardFiles) == cardFiles # {}

\* cardFiles.some(file => file.endsWith('.key') || file.endsWith('.crt') ||
\* file.includes('key_'))
HasKeyFiles(cardFiles) ==
    \E file \in cardFiles :
        EndsWith(file, ".key") \/ EndsWith(file, ".crt") \/ Includes(file, "key_")

\* what the loop body of getSoftCards pushes for one entry
CardOf(name, entry) ==
    IF entry.type = "locked"
    THEN <<[name |-> name, isValid |-> FALSE, certificates |-> <<>>]>>
    ELSE IF entry.type = "dir" /\ HasKeyFiles(entry.files)
    THEN <<[name |-> name, isValid |-> TRUE,
            certificates |-> SelectSeq(FileOrder,
                                 LAMBDA f : f \in entry.files /\ EndsWith(f, ".crt"))]>>
    ELSE <<>>

RECURSIVE CardsFrom(_, _)
CardsFrom(names, entries) ==
    IF names = <<>> THEN <<>>
    ELSE CardOf(Head(names), entries[Head(names)]) \o CardsFrom(Tail(names), entries)

KmDataMissing == "nFast kmdata path not found: /opt/nfast/kmdata/local"
KmDataDenied  == "EACCES: permission denied, scandir '/opt/nfast/kmdata/local'"
DiscoverFailed == "Failed to discover softcards: "

\* what a call on the store hands to its caller: it threw, or it returned a
\* list of softcards ("cards"), or a response with a success flag
\* ("response"); signData goes on to connect() ("connects")
FsNone == [how |-> "none", success |-> FALSE, error |-> "", value |-> <<>>]
FsThrew(msg) == [how |-> "threw", success |-> FALSE, error |-> msg, value |-> <<>>]
FsCards(cards) == [how |-> "cards", success |-> TRUE, error |-> "", value |-> cards]
FsFailure(msg) == [how |-> "response", success |-> FALSE, error |-> msg, value |-> <<>>]
FsSuccess(value) == [how |-> "response", success |-> TRUE, error |-> "", value |-> value]
FsConnects == [how |-> "connects", success |-> TRUE, error |-> "", value |-> <<>>]

\* HSMSocketClient.getSoftCards
getSoftCards(st) ==
    IF st.root = "missing" THEN FsThrew(DiscoverFailed \o KmDataMissing)
    ELSE IF st.root = "unreadable" THEN FsThrew(DiscoverFailed \o KmDataDenied)
    ELSE FsCards(CardsFrom(ReaddirOrder, st.entries))

\* certFile.replace('.crt', ''): the first '.crt' is taken out
RECURSIVE ReplaceCrt(_)
ReplaceCrt(file) ==
    IF file = <<>> THEN <<>>
    ELSE IF Head(file) = ".crt" THEN Tail(file)
    ELSE <<Head(file)>> \o ReplaceCrt(Tail(file))

\* the inner loop of getCertificates on one card: an entry is pushed for
\* each certificate file that fs.readFile reads, the others are skipped
CertificatesOfCard(card, entry) ==
    With(SelectSeq(card.certificates, LAMBDA f : f \notin entry.unreadable), LAMBDA read :
        [i \in 1..Len(read) |->
            [cardName |-> card.name, certFile |-> read[i], keyId |-> ReplaceCrt(read[i])]])

\* the outer loop, over softcards.filter(c => c.isValid)
RECURSIVE CertificatesOf(_, _)
CertificatesOf(cards, st) ==
    IF cards = <<>> THEN <<>>
    ELSE (IF Head(cards).isValid
          THEN CertificatesOfCard(Head(cards), st.entries[Head(cards).name])
          ELSE <<>>) \o CertificatesOf(Tail(cards), st)

ReadFailed == "EACCES: permission denied, open"

\* mutant: a certificate file that cannot be read fails the listing
getCertificates_failsOnUnreadable(st) ==
    With(getSoftCards(st), LAMBDA softcards :
        IF softcards.how = "threw" THEN FsFailure(softcards.error)
        ELSE IF \E i \in 1..Len(softcards.value) :
                    /\ softcards.value[i].isValid
                    /\ \E j \in 1..Len(softcards.value[i].certificates) :
                           softcards.value[i].certificates[j]
                               \in st.entries[softcards.value[i].name].unreadable
        THEN FsFailure(ReadFailed)
        ELSE FsSuccess(CertificatesOf(softcards.value, st)))

\* HSMSocketClient.getCertificates of the socket-path client
getCertificates(st) ==
    With(getSoftCards(st), LAMBDA softcards :
        IF softcards.how = "threw" THEN FsFailure(softcards.error)
        ELSE FsSuccess(CertificatesOf(softcards.value, st)))

\* softcards.find(c => c.name === cardName && (valid or any))
Find(cards, cardName, validOnly) ==
    SelectSeq(cards, LAMBDA c : c.name = cardName /\ (validOnly => c.isValid))

\* HSMSocketClient.getSoftCardDetails
getSoftCardDetails(st, cardName) ==
    With(getSoftCards(st), LAMBDA softcards :
        IF softcards.how = "threw" THEN FsFailure(softcards.error)
        ELSE IF Find(softcards.value, cardName, FALSE) = <<>>
        THEN FsFailure("Softcard '" \o cardName \o "' not found")
        ELSE FsSuccess(Head(Find(softcards.value, cardName, FALSE))))

\* mutant: signData accepts a softcard that is listed, valid or not
signDataLookup_anyCard(st, cardName) ==
    With(getSoftCards(st), LAMBDA softcards :
        IF softcards.how = "threw" THEN FsFailure(softcards.error)
        ELSE IF Find(softcards.value, cardName, FALSE) = <<>>
        THEN FsFailure("Softcard '" \o cardName \o "' not found or invalid")
        ELSE FsConnects)

\* HSMSocketClient.signData of the socket-path client, up to connect()
signDataLookup(st, cardName) ==
    With(getSoftCards(st), LAMBDA softcards :
        IF softcards.how = "threw" THEN FsFailure(softcards.error)
        ELSE IF Find(softcards.value, cardName, TRUE) = <<>>
        THEN FsFailure("Softcard '" \o cardName \o "' not found or invalid")
        ELSE FsConnects)

\* the valid softcards that a call sees
ValidNames(st) ==
    IF getSoftCards(st).how = "threw" THEN {}
    ELSE {n \in CardNames : Find(getSoftCards(st).value, n, TRUE) # <<>>}

\* ====================================================================
\* HSMUtils.createSignerInfoWithHSMSignature (hsm-utils.ts 127-156)
\* ====================================================================
OidSha256        == "2.16.840.1.101.3.4.2.1"
OidSha256WithRsa == "1.2.840.113549.1.1.11"
OidSha384        == "2.16.840.1.101.3.4.2.2"

\* values of the hashAlgorithm argument
HashNames == {"SHA-256", "SHA-384", "SHA-1", "md5"}

\* values of the hsmSignature argument: base64 of a signature, the empty
\* text, and two texts that atob rejects
SignatureTexts ==
    {Btoa(CryptoSign(k, <<>>)) : k \in Keys} \cup {<<>>, <<0, Star, 0, 0>>, <<0>>}

\* mutant: the digest algorithm follows the hashAlgorithm argument
createSignerInfoWithHSMSignature_byName(certificate, hsmSignature, hashAlgorithm) ==
    With(Atob(hsmSignature), LAMBDA signatureBytes :
        IF ~signatureBytes.ok THEN [threw |-> TRUE, signerInfos |-> <<>>]
        ELSE [threw |-> FALSE,
              signerInfos |-> <<[version |-> 1,
                                 sid |-> certificate,
                                 digestAlgorithm |->
                                     IF hashAlgorithm = "SHA-256" THEN OidSha256
                                     ELSE OidSha384,
                                 signatureAlgorithm |-> OidSha256WithRsa,
                                 signature |-> signatureBytes.bytes]>>])

\* HSMUtils.createSignerInfoWithHSMSignature: atob throws on a text that is
\* no base64; else the SignerInfo that is returned. sid is the issuer and
\* serial number of `certificate`, identified by the certificate number; both
\* branches of the conditional on hashAlgorithm give the SHA-256 identifier.
createSignerInfoWithHSMSignature(certificate, hsmSignature, hashAlgorithm) ==
    With(Atob(hsmSignature), LAMBDA signatureBytes :
        IF ~signatureBytes.ok THEN [threw |-> TRUE, signerInfos |-> <<>>]
        ELSE [threw |-> FALSE,
              signerInfos |-> <<[version |-> 1,
                                 sid |-> certificate,
                                 digestAlgorithm |->
                                     IF hashAlgorithm = "SHA-256" THEN OidSha256
                                     ELSE OidSha256,
                                 signatureAlgorithm |-> OidSha256WithRsa,
                                 signature |-> signatureBytes.bytes]>>])

\* ====================================================================
\* The state machine: one signData call produces an envelope (or a buffer
\* comes from elsewhere), the envelope may be changed out of band once, and
\* verifySignature is called on what is left.
\* ====================================================================
VARIABLES
    pc,         \* "idle", "failed" (signData threw), "ready" (a buffer exists), "verified"
    sgn,        \* the signData call that produced the buffer
    buf,        \* the bytes that verifySignature is given
    edit,       \* the out-of-band change made to the envelope
    certArg,    \* the `certificate` argument of verifySignature
    detached,   \* what the detached attempt did
    legacy,     \* what the legacy attempt did
    result,     \* what verifySignature handed to its caller
    pemText,    \* the PEM text at hand
    pemFrom,    \* where the text came from
    pemOut,     \* what the call on the text handed to its caller
    hsmClient,  \* the client object: its class and its socket field
    ops,        \* the method calls on the client object
    socks,      \* socks[o]: the socket that call o created
    store,      \* the directory kmDataPath as it is now
    fsSeen,     \* the valid softcards that the call before this one saw
    fsOut,      \* the call on the store and what it handed to its caller
    signer      \* the call of createSignerInfoWithHSMSignature and its outcome

pkiVars == <<pc, sgn, buf, edit, certArg, detached, legacy, result>>
pemVars == <<pemText, pemFrom, pemOut>>
hsmVars == <<hsmClient, ops, socks>>
fsVars == <<store, fsSeen, fsOut>>
utilVars == <<signer>>
otherVars == <<pemVars, hsmVars, fsVars, utilVars>>
vars == <<pkiVars, pemVars, hsmVars, fsVars, utilVars>>

NoSource == [kind |-> "none", buffer |-> <<>>, type |-> "", pieces |-> <<>>]
NoOut == [op |-> "none", threw |-> FALSE, error |-> "", bytes |-> <<>>, certificates |-> <<>>]

NoCall == [op |-> "none", cardName |-> "", result |-> FsNone]

NoSigner == [called |-> FALSE, certificate |-> 0, hsmSignature |-> <<>>,
             hashAlgorithm |-> "", threw |-> FALSE, signerInfos |-> <<>>]

NoSign == [mode |-> "none", data |-> <<>>, key |-> 0, cert |-> 0, chain |-> <<>>,
           threw |-> FALSE, error |-> "", bytes |-> <<>>]
NoEdit == [kind |-> "none", offset |-> 0]

Init ==
    /\ pc = "idle"
    /\ sgn = NoSign
    /\ buf = <<>>
    /\ edit = NoEdit
    /\ certArg = NoCert
    /\ detached = NotRun
    /\ legacy = NotRun
    /\ result = NoResult
    /\ pemText = <<>>
    /\ pemFrom = NoSource
    /\ pemOut = NoOut
    /\ hsmClient = NoClient
    /\ ops = [o \in OpIds |-> IdleOp]
    /\ socks = [o \in OpIds |-> NoSock]
    /\ store = EmptyStore
    /\ fsSeen = {}
    /\ fsOut = NoCall
    /\ signer = NoSigner

AfterSign(mode, data, key, cert, chain, r) ==
    /\ sgn' = [mode |-> mode, data |-> data, key |-> key, cert |-> cert,
               chain |-> chain, threw |-> r.threw, error |-> r.error, bytes |-> r.bytes]
    /\ buf' = r.bytes
    /\ pc' = IF r.threw THEN "failed" ELSE "ready"
    /\ UNCHANGED <<edit, certArg, detached, legacy, result, otherVars>>

\* a caller signs `data` (current signData)
SignData ==
    /\ pc = "idle"
    /\ \E data \in Payloads, key \in Keys, cert \in Certs, chain \in Chains :
          AfterSign("detached", data, key, cert, chain, signData(data, key, cert, chain))

\* a caller signed `data` with the earlier revision (encapsulated envelope)
SignDataEncapsulated ==
    /\ pc = "idle"
    /\ \E data \in Payloads, key \in Keys, cert \in Certs, chain \in Chains :
          AfterSign("encapsulated", data, key, cert, chain,
                    signDataEncapsulated(data, key, cert, chain))

\* a buffer that no signData produced is uploaded for verification
LoadBytes ==
    /\ pc = "idle"
    /\ \E b \in SeqsUpTo(ByteVals, MaxRaw) :
          /\ buf' = b
          /\ sgn' = [NoSign EXCEPT !.mode = "raw", !.bytes = b]
    /\ pc' = "ready"
    /\ UNCHANGED <<edit, certArg, detached, legacy, result, otherVars>>

\* an envelope made by other CMS software is uploaded: any certificate set
\* (also none, also items that are no Certificate), any signer identifier
ForeignEnvelope ==
    /\ pc = "idle"
    /\ \E data \in {p \in Payloads : Len(p) = 1}, key \in Keys, sid \in Certs,
          isDetached \in BOOLEAN,
          certs \in SeqsUpTo(Certs \cup {OtherCertTag}, MaxChain + 1) :
          LET sd == [NewSignedData(certs, ~isDetached, IF isDetached THEN <<>> ELSE data, sid)
                        EXCEPT !.signature = CryptoSign(key, data)]
              der == ToBER(OidSignedData, sd)
              b == IF isDetached THEN SetUint32(Len(der)) \o der \o data ELSE der
          IN  /\ buf' = b
              /\ sgn' = [mode |-> "foreign", data |-> data, key |-> key, cert |-> sid,
                         chain |-> certs, threw |-> FALSE, error |-> "", bytes |-> b]
    /\ pc' = "ready"
    /\ UNCHANGED <<edit, certArg, detached, legacy, result, otherVars>>

\* the segment of the envelope that the 0-based offset lies in
SegmentOf(offset) ==
    IF sgn.mode # "detached" THEN "other"
    ELSE IF offset < PrefixLen THEN "prefix"
    ELSE IF offset < PrefixLen + GetUint32(sgn.bytes) THEN "signature"
    ELSE "payload"

\* one byte of the envelope is changed after signing
ChangeByte ==
    /\ pc = "ready"
    /\ sgn.mode # "foreign"
    /\ edit.kind = "none"
    /\ \E i \in 1..Len(buf), v \in ByteVals :
          /\ v # buf[i]
          /\ buf' = [buf EXCEPT ![i] = v]
          /\ edit' = [kind |-> SegmentOf(i - 1), offset |-> i - 1]
    /\ UNCHANGED <<pc, sgn, certArg, detached, legacy, result, otherVars>>

\* the envelope loses its tail after signing
Truncate ==
    /\ pc = "ready"
    /\ sgn.mode # "foreign"
    /\ edit.kind = "none"
    /\ \E n \in 0..(Len(buf) - 1) :
          /\ buf' = SubSeq(buf, 1, n)
          /\ edit' = [kind |-> "truncated", offset |-> n]
    /\ UNCHANGED <<pc, sgn, certArg, detached, legacy, result, otherVars>>

\* PKIUtils.verifySignature(buf, certificate)
VerifySignature ==
    /\ pc = "ready"
    /\ \E certificate \in {NoCert} \cup {Some(c) : c \in Certs} :
          LET det == DetachedAttempt(buf, certificate)
              leg == IF FallbackTaken(det) THEN LegacyAttempt(buf, certificate) ELSE NotRun
          IN  /\ certArg' = certificate
              /\ detached' = det
              /\ legacy' = leg
              /\ result' = Outcome(det, leg)
    /\ pc' = "verified"
    /\ UNCHANGED <<sgn, buf, edit, otherVars>>

\* the caller starts over
NextCall ==
    /\ pc \in {"failed", "verified"}
    /\ pc' = "idle"
    /\ sgn' = NoSign
    /\ buf' = <<>>
    /\ edit' = NoEdit
    /\ certArg' = NoCert
    /\ detached' = NotRun
    /\ legacy' = NotRun
    /\ result' = NoResult
    /\ UNCHANGED otherVars

Next ==
    \/ SignData
    \/ SignDataEncapsulated
    \/ LoadBytes
    \/ ForeignEnvelope
    \/ ChangeByte
    \/ Truncate
    \/ VerifySignature
    \/ NextCall

Spec == Init /\ [][Next]_vars

\* ====================================================================
\* The PEM codec as a state machine: a text comes from arrayBufferToPem,
\* from a certificate file or from a hand-made armour, and is then given
\* to pemToArrayBuffer or to parseCertificateChain.
\* ====================================================================
PemBytes == {0, 48, 255}
LongLens == {47, 48, 49, 96, 97}

\* buffers of up to MaxBuf bytes, and long ones that fill whole lines
Buffers ==
    SeqsUpTo(PemBytes, MaxBuf)
        \cup {[i \in 1..n |-> b] : n \in LongLens, b \in {0, 255}}
        \cup {[i \in 1..n |-> (i * 37) % 256] : n \in LongLens}

\* bodies written by hand between a BEGIN and an END line
BodyChars == {0, 16, Pad, Star, NL}
Bodies == SeqsUpTo(BodyChars, MaxBody)

\* the pieces a certificate file is made of
Pieces ==
    {<<"cert", c>> : c \in Certs}
        \cup {<<"key", 0>>, <<"text", 0>>, <<"badBase64", 0>>, <<"badDer", 0>>,
              <<"noCert", 0>>, <<"begin", 0>>}

PieceText(p) ==
    CASE p[1] = "cert"      -> arrayBufferToPem(CertDer(p[2]), "CERTIFICATE") \o <<NL>>
      [] p[1] = "key"       -> arrayBufferToPem(<<TagSequence, 1, 0>>, "PRIVATE KEY") \o <<NL>>
      [] p[1] = "text"      -> <<44, 46, 27, Space, 2, 13, NL>>
      [] p[1] = "badBase64" -> BeginLine("CERTIFICATE") \o <<NL, 12, 0, Star, 0, NL>>
                                  \o EndLine("CERTIFICATE") \o <<NL>>
      [] p[1] = "badDer"    -> arrayBufferToPem(<<TagSequence, 5, 1>>, "CERTIFICATE") \o <<NL>>
      [] p[1] = "noCert"    -> arrayBufferToPem(<<4, 1, 1>>, "CERTIFICATE") \o <<NL>>
      [] p[1] = "begin"     -> BeginLine("CERTIFICATE") \o <<NL>>

RECURSIVE FileText(_)
FileText(pieces) ==
    IF pieces = <<>> THEN <<>> ELSE PieceText(Head(pieces)) \o FileText(Tail(pieces))

Files == SeqsUpTo(Pieces, MaxPieces)

FromBuffer(buffer, type) == [kind |-> "buffer", buffer |-> buffer, type |-> type, pieces |-> <<>>]
FromFile(pieces) == [kind |-> "file", buffer |-> <<>>, type |-> "", pieces |-> pieces]
FromBody(body, type) == [kind |-> "body", buffer |-> body, type |-> type, pieces |-> <<>>]

\* PKIUtils.arrayBufferToPem(buffer, type)
ArrayBufferToPem ==
    /\ pemFrom.kind = "none"
    /\ \E buffer \in Buffers, type \in PemTypes :
          /\ pemText' = arrayBufferToPem(buffer, type)
          /\ pemFrom' = FromBuffer(buffer, type)
    /\ UNCHANGED <<pemOut, pkiVars, hsmVars, fsVars, utilVars>>

\* a certificate file is read
ReadFile ==
    /\ pemFrom.kind = "none"
    /\ \E pieces \in Files :
          /\ pemText' = FileText(pieces)
          /\ pemFrom' = FromFile(pieces)
    /\ UNCHANGED <<pemOut, pkiVars, hsmVars, fsVars, utilVars>>

\* an armour whose body was written by hand is read
ReadArmour ==
    /\ pemFrom.kind = "none"
    /\ \E body \in Bodies, type \in PemTypes :
          /\ pemText' = BeginLine(type) \o <<NL>> \o body \o <<NL>> \o EndLine(type)
          /\ pemFrom' = FromBody(body, type)
    /\ UNCHANGED <<pemOut, pkiVars, hsmVars, fsVars, utilVars>>

\* PKIUtils.pemToArrayBuffer(pemText)
PemToArrayBuffer ==
    /\ pemFrom.kind # "none"
    /\ pemOut.op = "none"
    /\ LET r == pemToArrayBuffer(pemText)
       IN  pemOut' = [op |-> "pemToArrayBuffer", threw |-> r.threw, error |-> r.error,
                      bytes |-> r.bytes, certificates |-> <<>>]
    /\ UNCHANGED <<pemText, pemFrom, pkiVars, hsmVars, fsVars, utilVars>>

\* PKIUtils.parseCertificateChain(pemText)
ParseCertificateChain ==
    /\ pemFrom.kind # "none"
    /\ pemOut.op = "none"
    /\ LET r == parseCertificateChain(pemText)
       IN  pemOut' = [op |-> "parseCertificateChain", threw |-> r.threw, error |-> r.error,
                      bytes |-> <<>>, certificates |-> r.certificates]
    /\ UNCHANGED <<pemText, pemFrom, pkiVars, hsmVars, fsVars, utilVars>>

\* the caller starts over with another text
PemNextCall ==
    /\ pemOut.op # "none"
    /\ pemText' = <<>>
    /\ pemFrom' = NoSource
    /\ pemOut' = NoOut
    /\ UNCHANGED <<pkiVars, hsmVars, fsVars, utilVars>>

PemNext ==
    \/ ArrayBufferToPem
    \/ ReadFile
    \/ ReadArmour
    \/ PemToArrayBuffer
    \/ ParseCertificateChain
    \/ PemNextCall

SpecPem == Init /\ [][PemNext]_vars

\* ====================================================================
\* The calls on a socket client
\* ====================================================================
\* socket.destroy(): `by` keeps who destroyed the socket first
Destroyed(sock, by) ==
    IF sock.state = "destroyed" THEN sock
    ELSE [sock EXCEPT !.state = "destroyed", !.by = by]

\* mutant: the field is cleared but the socket is left as it is
Disconnect_keepOpen(cl, ss) ==
    [client |-> [cl EXCEPT !.socket = 0], socks |-> ss]

\* HSMSocketClient.disconnect
Disconnect(cl, ss) ==
    IF cl.socket = 0 THEN [client |-> cl, socks |-> ss]
    ELSE [client |-> [cl EXCEPT !.socket = 0],
          socks |-> [ss EXCEPT ![cl.socket] = Destroyed(@, "disconnect")]]

\* return `reply` from inside the try block: the finally block disconnects
Return(o, os, cl, ss, reply, exit) ==
    /\ ops' = [os EXCEPT ![o].pc = "done", ![o].result = reply, ![o].exit = exit]
    /\ hsmClient' = Disconnect(cl, ss).client
    /\ socks' = Disconnect(cl, ss).socks

\* no callback runs while a resumed method has not reached its next await
Quiet == \A p \in OpIds : ops[p].pc # "ready"

\* method `kind` is called on the client object cl: the look at the
\* filesystem that the socket-path client begins with, then connect(), which
\* puts a new socket in this.socket
Begin(o, cl, kind, pre) ==
    LET op == [IdleOp EXCEPT !.kind = kind]
    IN  IF CommandsOf(cl.cls, kind) = <<>> THEN
            \* socket-path getCertificates: no connection, no finally
            /\ ops' = [ops EXCEPT ![o] =
                         [op EXCEPT !.pc = "done", !.exit = "local",
                                    !.result = IF pre = "found" THEN Success(<<>>)
                                               ELSE Failure(DiscoverFailedMsg)]]
            /\ hsmClient' = cl
            /\ UNCHANGED socks
        ELSE IF pre # "found" THEN
            Return(o, [ops EXCEPT ![o] = op], cl, socks,
                   Failure(IF pre = "error" THEN DiscoverFailedMsg
                           ELSE IF kind = "signData" THEN CardMissingMsg
                           ELSE SocketMissingMsg),
                   "precheck")
        ELSE
            /\ ops' = [ops EXCEPT ![o] =
                         [op EXCEPT !.pc = "connecting", !.connects = @ + 1,
                                    !.connTimer = "pending"]]
            /\ hsmClient' = [cl EXCEPT !.socket = o]
            /\ socks' = [socks EXCEPT ![o] = [NoSock EXCEPT !.state = "connecting"]]

\* a method of a new client object is called. The routes make a client
\* object for each request and call one method on it (api/hsm/test/route.ts
\* 9-10, api/hsm/certificates/route.ts 9-10), so one operation runs on a
\* client object at a time.
Call(o) ==
    /\ o = 1
    /\ \A p \in OpIds : ops[p].pc = "idle"
    /\ \E cls \in Classes :
       \E kind \in Methods(cls) :
       \E pre \in PreChecks(cls, kind) :
          Begin(o, [cls |-> cls, socket |-> 0], kind, pre)
    /\ UNCHANGED <<pkiVars, pemVars, fsVars, utilVars>>

\* a second method is called on the same client object while the first
\* call waits for its socket or for a response
CallWhileBusy(o) ==
    /\ o = 2
    /\ ops[1].pc \in {"connecting", "awaiting"}
    /\ ops[o].pc = "idle"
    /\ \E kind \in Methods(hsmClient.cls) :
       \E pre \in PreChecks(hsmClient.cls, kind) :
          Begin(o, hsmClient, kind, pre)
    /\ UNCHANGED <<pkiVars, pemVars, fsVars, utilVars>>

\* mutant: the connect callback leaves the connect timer running
ConnectCallback_keepsTimer(o) ==
    /\ Quiet
    /\ ops[o].pc = "connecting"
    /\ socks[o].state = "connecting"
    /\ socks' = [socks EXCEPT ![o].state = "open"]
    /\ ops' = [ops EXCEPT ![o].pc = "ready"]
    /\ UNCHANGED <<hsmClient, pkiVars, pemVars, fsVars, utilVars>>

\* the connect callback: the timer is cleared, connect() resolves
ConnectCallback(o) ==
    /\ Quiet
    /\ ops[o].pc = "connecting"
    /\ socks[o].state = "connecting"
    /\ socks' = [socks EXCEPT ![o].state = "open"]
    /\ ops' = [ops EXCEPT ![o].connTimer = "cleared", ![o].pc = "ready"]
    /\ UNCHANGED <<hsmClient, pkiVars, pemVars, fsVars, utilVars>>

\* mutant: after an error the method connects once more
ConnectError_reconnects(o) ==
    /\ Quiet
    /\ ops[o].pc = "connecting"
    /\ socks[o].state = "connecting"
    /\ IF ops[o].connects < 2
       THEN /\ ops' = [ops EXCEPT ![o].connects = @ + 1]
            /\ UNCHANGED <<hsmClient, socks>>
       ELSE Return(o, [ops EXCEPT ![o].connTimer = "cleared"], hsmClient,
                   [socks EXCEPT ![o] = Destroyed(@, "error")],
                   Failure(ConnectFailedMsg), "connectError")
    /\ UNCHANGED <<pkiVars, pemVars, fsVars, utilVars>>

\* the socket reports an error before it is connected: the timer is
\* cleared, connect() rejects, the method returns
ConnectError(o) ==
    /\ Quiet
    /\ ops[o].pc = "connecting"
    /\ socks[o].state = "connecting"
    /\ Return(o, [ops EXCEPT ![o].connTimer = "cleared"], hsmClient,
              [socks EXCEPT ![o] = Destroyed(@, "error")],
              Failure(ConnectFailedMsg), "connectError")
    /\ UNCHANGED <<pkiVars, pemVars, fsVars, utilVars>>

\* mutant: the timer rejects without destroying the socket
ConnectTimeout_noDestroy(o) ==
    /\ Quiet
    /\ ops[o].connTimer = "pending"
    /\ Return(o, [ops EXCEPT ![o].connTimer = "fired"], hsmClient, socks,
              Failure(ConnectTimeoutMsg(hsmClient.cls)), "connectTimeout")
    /\ UNCHANGED <<pkiVars, pemVars, fsVars, utilVars>>

\* mutant: connect() resolves when its timer fires
ConnectTimeout_resolves(o) ==
    /\ Quiet
    /\ ops[o].connTimer = "pending"
    /\ socks' = [socks EXCEPT ![o] = Destroyed(@, "timer")]
    /\ ops' = [ops EXCEPT ![o].connTimer = "fired", ![o].pc = "ready"]
    /\ UNCHANGED <<hsmClient, pkiVars, pemVars, fsVars, utilVars>>

\* the connect timer fires: this.socket is destroyed, connect() rejects,
\* the method returns
ConnectTimeout(o) ==
    /\ Quiet
    /\ ops[o].connTimer = "pending"
    /\ Return(o, [ops EXCEPT ![o].connTimer = "fired"], hsmClient,
              IF hsmClient.socket = 0 THEN socks
              ELSE [socks EXCEPT ![hsmClient.socket] = Destroyed(@, "timer")],
              Failure(ConnectTimeoutMsg(hsmClient.cls)), "connectTimeout")
    /\ UNCHANGED <<pkiVars, pemVars, fsVars, utilVars>>

\* mutant: the host:port signData sends SIGN_HASH whatever AUTHENTICATE answered
AfterResponse_ignoreAuth(o, os, ss, doc) ==
    LET cls == hsmClient.cls
        kind == ops[o].kind
    IN  IF ops[o].sent < Len(CommandsOf(cls, kind)) THEN
            /\ ops' = [os EXCEPT ![o].pc = "ready"]
            /\ socks' = ss
            /\ UNCHANGED hsmClient
        ELSE Return(o, os, hsmClient, ss, ReplyOf(cls, kind, doc), "response")

\* the method goes on with the response that sendCommand resolved with:
\* signData of the host:port client looks at authResponse.success and sends
\* the second command; every other response is what the method returns
AfterResponse(o, os, ss, doc) ==
    LET cls == hsmClient.cls
        kind == ops[o].kind
    IN  IF ops[o].sent < Len(CommandsOf(cls, kind)) THEN
            IF doc.success
            THEN /\ ops' = [os EXCEPT ![o].pc = "ready"]
                 /\ socks' = ss
                 /\ UNCHANGED hsmClient
            ELSE Return(o, os, hsmClient, ss, Failure(AuthFailedMsg), "authFailed")
        ELSE Return(o, os, hsmClient, ss, ReplyOf(cls, kind, doc), "response")

\* sendCommand: without a socket it rejects; else it adds its listeners,
\* starts its timer and writes the command on this.socket
SendCommand(o) ==
    /\ ops[o].pc = "ready"
    /\ LET s == hsmClient.socket
           n == ops[o].sent + 1
           command == CommandsOf(hsmClient.cls, ops[o].kind)[n]
       IN  IF s = 0 THEN
               Return(o, ops, hsmClient, socks, Failure(NotConnectedMsg), "notConnected")
           ELSE
               /\ socks' = [socks EXCEPT
                              ![s].listeners = Append(@, [op |-> o, n |-> n, buf |-> <<>>, bytes |-> <<>>]),
                              ![s].log = Append(@, <<"write", o, command>>)]
               /\ ops' = [ops EXCEPT ![o].pc = "awaiting", ![o].sent = n,
                                     ![o].cmdTimer = "pending"]
               /\ UNCHANGED hsmClient
    /\ UNCHANGED <<pkiVars, pemVars, fsVars, utilVars>>

\* mutant: a listener whose promise was settled resolves the call that waits
Waiting_anyListener(l) == ops[l.op].pc = "awaiting"

\* the listener whose promise is still pending
Waiting(l) == ops[l.op].pc = "awaiting" /\ ops[l.op].sent = l.n

\* a chunk out of `chunks` arrives on socket s: every data listener of the
\* socket adds it to its own responseData; the one whose promise is pending
\* may resolve
DataOf(s, chunks) ==
    /\ Quiet
    /\ socks[s].state = "open"
    /\ socks[s].listeners # <<>>
    /\ socks[s].recv < MaxChunks
    /\ \E chunk \in chunks :
          LET heard == [i \in 1..Len(socks[s].listeners) |->
                          [socks[s].listeners[i] EXCEPT !.buf = @ \o Utf8ToString(chunk),
                                                        !.bytes = @ \o chunk]]
              ss == [socks EXCEPT ![s].listeners = heard, ![s].recv = @ + 1]
              done == {i \in 1..Len(heard) :
                          Waiting(heard[i]) /\ OnData(hsmClient.cls, heard[i].buf).settled}
          IN  IF done = {} THEN
                  /\ socks' = ss
                  /\ UNCHANGED <<ops, hsmClient>>
              ELSE
                  \* (two calls that wait on one socket and are answered by the
                  \* same chunk are left out)
                  /\ \A i, j \in done : heard[i].op = heard[j].op
                  /\ \E i \in done :
                      LET o == heard[i].op
                          doc == OnData(hsmClient.cls, heard[i].buf).doc
                      IN  AfterResponse(o, [ops EXCEPT ![o].cmdTimer = "cleared"],
                                        [ss EXCEPT ![s].log =
                                            Append(@, <<"response", o,
                                                IF doc.success THEN "success" ELSE "failure">>)],
                                        doc)
    /\ UNCHANGED <<pkiVars, pemVars, fsVars, utilVars>>

Data(s) == DataOf(s, Chunks)

\* the peer sends whole responses, or junk
WholeChunks == {Response, <<"F">>, <<"junk">>}

DataWhole(s) == DataOf(s, WholeChunks)

\* mutant: the first chunk of a response clears the command timer
CommandTimeout_clearedByData(o) ==
    /\ Quiet
    /\ ops[o].pc = "awaiting"
    /\ ops[o].cmdTimer = "pending"
    /\ socks[o].listeners[Len(socks[o].listeners)].bytes = <<>>
    /\ Return(o, [ops EXCEPT ![o].cmdTimer = "fired"], hsmClient, socks,
              Failure(CommandTimeoutMsg), "commandTimeout")
    /\ UNCHANGED <<pkiVars, pemVars, fsVars, utilVars>>

\* mutant: when the timer fires the method returns what was buffered
CommandTimeout_returnsPartial(o) ==
    /\ Quiet
    /\ ops[o].pc = "awaiting"
    /\ ops[o].cmdTimer = "pending"
    /\ Return(o, [ops EXCEPT ![o].cmdTimer = "fired"], hsmClient, socks,
              Success(socks[o].listeners[Len(socks[o].listeners)].buf), "commandTimeout")
    /\ UNCHANGED <<pkiVars, pemVars, fsVars, utilVars>>

\* the command timer fires: sendCommand rejects, the method returns
CommandTimeout(o) ==
    /\ Quiet
    /\ ops[o].pc = "awaiting"
    /\ ops[o].cmdTimer = "pending"
    /\ Return(o, [ops EXCEPT ![o].cmdTimer = "fired"], hsmClient, socks,
              Failure(CommandTimeoutMsg), "commandTimeout")
    /\ UNCHANGED <<pkiVars, pemVars, fsVars, utilVars>>

\* the socket reports an error while a response is awaited: the timer is
\* cleared, sendCommand rejects, the method returns
SocketError(o) ==
    /\ Quiet
    /\ ops[o].pc = "awaiting"
    /\ socks[o].state = "open"
    /\ Return(o, [ops EXCEPT ![o].cmdTimer = "cleared"], hsmClient,
              [socks EXCEPT ![o] = Destroyed(@, "error")],
              Failure(SocketErrorMsg), "socketError")
    /\ UNCHANGED <<pkiVars, pemVars, fsVars, utilVars>>

\* the peer closes the connection without an error: no listener hears it
PeerClose(s) ==
    /\ Quiet
    /\ socks[s].state = "open"
    /\ socks' = [socks EXCEPT ![s] = Destroyed(@, "peer")]
    /\ UNCHANGED <<ops, hsmClient, pkiVars, pemVars, fsVars, utilVars>>

\* the caller is done with the client object
HsmNextCall ==
    /\ \E p \in OpIds : ops[p].pc = "done"
    /\ \A p \in OpIds : ops[p].pc \in {"idle", "done"}
    /\ ops' = [p \in OpIds |-> IdleOp]
    /\ socks' = [p \in OpIds |-> NoSock]
    /\ hsmClient' = NoClient
    /\ UNCHANGED <<pkiVars, pemVars, fsVars, utilVars>>

HsmNext ==
    \/ \E o \in OpIds : Call(o)
    \/ \E o \in OpIds : ConnectCallback(o)
    \/ \E o \in OpIds : ConnectError(o)
    \/ \E o \in OpIds : ConnectTimeout(o)
    \/ \E o \in OpIds : SendCommand(o)
    \/ \E s \in OpIds : Data(s)
    \/ \E o \in OpIds : CommandTimeout(o)
    \/ \E o \in OpIds : SocketError(o)
    \/ \E s \in OpIds : PeerClose(s)
    \/ HsmNextCall

SpecHsm == Init /\ [][HsmNext]_vars

\* the event loop runs a timer that is due, and the continuation of a
\* method whose await has settled; the peer and the caller owe nothing
SpecHsmLive ==
    /\ SpecHsm
    /\ \A o \in OpIds : WF_vars(ConnectTimeout(o))
    /\ \A o \in OpIds : WF_vars(CommandTimeout(o))
    /\ \A o \in OpIds : WF_vars(SendCommand(o))

\* two calls in progress on one client object, against a peer that answers
\* with whole responses or stays silent (no socket error and no close once
\* connected)
HsmSharedNext ==
    \/ \E o \in OpIds : Call(o)
    \/ \E o \in OpIds : CallWhileBusy(o)
    \/ \E o \in OpIds : ConnectCallback(o)
    \/ \E o \in OpIds : ConnectError(o)
    \/ \E o \in OpIds : ConnectTimeout(o)
    \/ \E o \in OpIds : SendCommand(o)
    \/ \E s \in OpIds : DataWhole(s)
    \/ \E o \in OpIds : CommandTimeout(o)
    \/ HsmNextCall

SpecHsmShared == Init /\ [][HsmSharedNext]_vars

\* ====================================================================
\* The calls on the key store. The store changes out of band between the
\* calls: one entry, or the directory itself, at a time.
\* ====================================================================
FsChange ==
    /\ fsOut = NoCall
    /\ \/ \E r \in RootStates : store' = [store EXCEPT !.root = r]
       \/ \E n \in CardNames, e \in Entries : store' = [store EXCEPT !.entries[n] = e]
    /\ store' # store
    /\ UNCHANGED <<fsSeen, fsOut, pkiVars, pemVars, hsmVars, utilVars>>

Called(op, cardName, r) ==
    /\ fsOut = NoCall
    /\ fsOut' = [op |-> op, cardName |-> cardName, result |-> r]
    /\ UNCHANGED <<store, fsSeen, pkiVars, pemVars, hsmVars, utilVars>>

FsGetSoftCards == Called("getSoftCards", "", getSoftCards(store))

FsGetCertificates == Called("getCertificates", "", getCertificates(store))

FsGetSoftCardDetails ==
    \E cardName \in CardNames :
        Called("getSoftCardDetails", cardName, getSoftCardDetails(store, cardName))

\* mutant: signData trusts the softcards that the call before it saw
FsSignData_cached ==
    \E cardName \in CardNames :
        Called("signData", cardName,
               IF cardName \in fsSeen THEN FsConnects ELSE signDataLookup(store, cardName))

FsSignData ==
    \E cardName \in CardNames :
        Called("signData", cardName, signDataLookup(store, cardName))

\* the caller has its answer; what the call saw is the past of the next call
FsNextCall ==
    /\ fsOut # NoCall
    /\ fsOut' = NoCall
    /\ fsSeen' = ValidNames(store)
    /\ UNCHANGED <<store, pkiVars, pemVars, hsmVars, utilVars>>

FsNext ==
    \/ FsChange
    \/ FsGetSoftCards
    \/ FsGetCertificates
    \/ FsGetSoftCardDetails
    \/ FsSignData
    \/ FsNextCall

SpecStore == Init /\ [][FsNext]_vars

\* ====================================================================
\* signData of the socket-path client on the key store and the socket: the
\* lookup of the softcard, then the connection and SIGN_DATA. The store
\* changes between the calls.
\* ====================================================================
\* how the lookup ends: the softcard is found, it is missing, or
\* getSoftCards threw
PreOf(r, cardName) ==
    IF r.how = "connects" THEN "found"
    ELSE IF r.error = "Softcard '" \o cardName \o "' not found or invalid" THEN "missing"
    ELSE "error"

\* signData(keyId, dataHash, cardName, passphrase) on a new socket-path client
SignDataOnStore(o) ==
    /\ o = 1
    /\ \A p \in OpIds : ops[p].pc = "idle"
    /\ fsOut = NoCall
    /\ \E cardName \in CardNames :
          LET r == signDataLookup(store, cardName)
          IN  /\ fsOut' = [op |-> "signData", cardName |-> cardName, result |-> r]
              /\ Begin(o, [cls |-> "unix", socket |-> 0], "signData", PreOf(r, cardName))
    /\ UNCHANGED <<store, fsSeen, pkiVars, pemVars, utilVars>>

\* the device answers with one line: a success or a failure response
ResponseLines == {Response \o <<"nl">>, <<"F", "nl">>}

DataLine(s) == DataOf(s, ResponseLines)

\* the caller has the result of signData
SignReturned ==
    /\ fsOut.op = "signData"
    /\ \E p \in OpIds : ops[p].pc = "done"
    /\ ops' = [p \in OpIds |-> IdleOp]
    /\ socks' = [p \in OpIds |-> NoSock]
    /\ hsmClient' = NoClient
    /\ fsOut' = NoCall
    /\ UNCHANGED <<store, fsSeen, pkiVars, pemVars, utilVars>>

SignNext ==
    \/ FsChange
    \/ \E o \in OpIds : SignDataOnStore(o)
    \/ \E o \in OpIds : ConnectCallback(o)
    \/ \E o \in OpIds : ConnectError(o)
    \/ \E o \in OpIds : ConnectTimeout(o)
    \/ \E o \in OpIds : SendCommand(o)
    \/ \E s \in OpIds : DataLine(s)
    \/ \E o \in OpIds : CommandTimeout(o)
    \/ SignReturned

SpecSign == Init /\ [][SignNext]_vars

\* ====================================================================
\* The signer-infos: createSignerInfoWithHSMSignature is called on a
\* certificate and the signature an HSM returned, and signData builds its
\* envelope
\* ====================================================================
CreateSignerInfo ==
    /\ ~signer.called
    /\ \E certificate \in Certs, hsmSignature \in SignatureTexts, hashAlgorithm \in HashNames :
          LET r == createSignerInfoWithHSMSignature(certificate, hsmSignature, hashAlgorithm)
          IN  signer' = [called |-> TRUE, certificate |-> certificate,
                         hsmSignature |-> hsmSignature, hashAlgorithm |-> hashAlgorithm,
                         threw |-> r.threw, signerInfos |-> r.signerInfos]
    /\ UNCHANGED <<pkiVars, pemVars, hsmVars, fsVars>>

\* the caller has the SignerInfo, or the exception
SignerNextCall ==
    /\ signer.called
    /\ signer' = NoSigner
    /\ UNCHANGED <<pkiVars, pemVars, hsmVars, fsVars>>

SignerNext ==
    \/ CreateSignerInfo
    \/ SignerNextCall
    \/ SignData
    \/ SignDataEncapsulated
    \/ NextCall

SpecSigner == Init /\ [][SignerNext]_vars



\* ====================================================================
\* Properties of the signature engine
\* ====================================================================
Matching   == PubKeyOf(sgn.cert) = sgn.key      \* the key belongs to the certificate
Untouched  == edit.kind = "none"
HasPrefix  == Len(buf) >= PrefixLen
InBounds(lo) == lo < GetUint32(buf) /\ GetUint32(buf) <= Len(buf) - PrefixLen

\* C1 (as claimed): for every payload, the empty one included, and every
\* matching certificate/key pair, signData returns an envelope and
\* verifySignature of that envelope returns verified = true and the payload.
C1_RoundTripAllPayloads ==
    (sgn.mode = "detached" /\ Matching /\ Untouched) =>
        /\ ~sgn.threw
        /\ pc = "verified" =>
              /\ result.state = "returned"
              /\ result.verified
              /\ result.data = Some(sgn.data)

\* C2: after any single-byte change inside the payload segment of an envelope
\* of signData, verifySignature returns a result with verified = false; it
\* does not throw.
C2_PayloadTamperRejected ==
    (pc = "verified" /\ sgn.mode = "detached" /\ edit.kind = "payload") =>
        /\ result.state = "returned"
        /\ ~result.verified

C2_Witness ==
    /\ pc = "verified" /\ sgn.mode = "detached" /\ edit.kind = "payload"
    /\ Matching /\ certArg = Some(sgn.cert)

\* C3 (as claimed): a length prefix larger than the bytes after it makes the
\* call fail with the framing error, and nothing of the buffer is parsed.
C3_PrefixTooLargeNoParse ==
    (pc = "verified" /\ HasPrefix /\ GetUint32(buf) > Len(buf) - PrefixLen) =>
        /\ result.state = "threw" /\ result.error = FramingError
        /\ detached.parsedOf = Undefined
        /\ legacy.parsedOf = Undefined

\* C3 (amended): a length prefix larger than the bytes after it raises the
\* framing error before the signature slice is parsed; the legacy attempt
\* then parses the whole buffer; the call fails, with the framing error's
\* message, exactly when the legacy attempt fails, as it does for every
\* detached-combined envelope, and else returns the legacy attempt's result.
C3_PrefixTooLargeFallsBack ==
    (pc = "verified" /\ HasPrefix /\ GetUint32(buf) > Len(buf) - PrefixLen) =>
        /\ detached.raised /\ detached.error = FramingError
        /\ detached.parsedOf = Undefined
        /\ legacy.ran /\ legacy.parsedOf = Some(buf)
        /\ legacy.raised => (result.state = "threw" /\ result.error = FramingError)
        /\ ~legacy.raised => result = ResultOf(legacy)
        /\ sgn.mode = "detached" => result.state = "threw"

C3_Witness ==
    /\ pc = "verified" /\ HasPrefix /\ GetUint32(buf) > Len(buf) - PrefixLen
    /\ sgn.mode = "detached" /\ edit.kind = "truncated"
    /\ result.state = "threw" /\ result.error = FramingError

\* C4 (as claimed): the signature slice is parsed only if 4 < L <= total - 4,
\* and every other L ends the call with the framing error, unparsed.
C4_PrefixAbove4NotSwallowed ==
    (pc = "verified" /\ HasPrefix) =>
        /\ detached.parsedOf # Undefined => InBounds(PrefixLen)
        /\ ~InBounds(PrefixLen) =>
              /\ detached.parsedOf = Undefined
              /\ result.state = "threw" /\ result.error = FramingError

\* C4 (amended): the signature slice is parsed if and only if
\* 0 < L <= total - 4 (so also for L in 1..4); every other L raises the
\* framing error before the slice is parsed, and that error starts the
\* legacy attempt: it reaches the caller, as the message of the error
\* thrown, only when the legacy attempt fails as well.
C4_PrefixAbove0FallsBack ==
    (pc = "verified" /\ HasPrefix) =>
        /\ detached.parsedOf # Undefined <=> InBounds(0)
        /\ InBounds(0) =>
              detached.parsedOf =
                  Some(Slice(buf, PrefixLen, PrefixLen + GetUint32(buf)))
        /\ ~InBounds(0) =>
              /\ detached.raised /\ detached.error = FramingError
              /\ legacy.ran
              /\ result.state = "threw" <=> legacy.raised
              /\ result.state = "threw" => result.error = FramingError

C4_Witness ==
    /\ pc = "verified" /\ HasPrefix
    /\ GetUint32(buf) \in 1..PrefixLen /\ InBounds(0)
    /\ detached.parsedOf # Undefined

\* C5: the envelope of signData is 4 + L + |P| bytes long, L being the length
\* of the serialized signature structure; bytes 0..4 are L big-endian, bytes
\* 4..4+L the structure, the bytes from 4+L on are P; no spare byte is
\* returned.
C5_EnvelopeLayout ==
    (sgn.mode = "detached" /\ ~sgn.threw) =>
        LET e == sgn.bytes
            asn == FromBER(Slice(e, PrefixLen, Len(e)))
            L == asn.offset
            parsed == ParseSignedData(FromBER(Slice(e, PrefixLen, PrefixLen + L)))
        IN  /\ L > 0
            /\ Len(e) = PrefixLen + L + Len(sgn.data)
            /\ Slice(e, 0, PrefixLen) = <<0, 0, 0, L>>
            /\ parsed.ok
            /\ parsed.sd.certs = <<sgn.cert>> \o sgn.chain
            /\ ~parsed.sd.hasE
            /\ Slice(e, PrefixLen + L, Len(e)) = sgn.data

C5_Witness ==
    /\ pc = "ready" /\ sgn.mode = "detached" /\ ~sgn.threw /\ Untouched
    /\ Len(sgn.data) > 1 /\ Len(sgn.chain) > 0

\* C6: the legacy attempt runs if and only if the detached attempt raised an
\* error; a verdict of the detached attempt, verified = false included, is
\* what the caller gets, and the legacy attempt is not executed.
C6_FallbackOnlyOnError ==
    pc = "verified" =>
        /\ legacy.ran <=> detached.raised
        /\ ~detached.raised => (result = ResultOf(detached) /\ legacy = NotRun)

C6_Witness ==
    /\ pc = "verified" /\ detached.ran /\ ~detached.raised
    /\ ~detached.verified /\ ~legacy.ran
    /\ result.state = "returned" /\ ~result.verified

\* C7: when both attempts fail, verifySignature throws; it returns no result
\* object.
C7_BothFailThrows ==
    (pc = "verified" /\ detached.raised /\ legacy.raised) =>
        /\ result.state = "threw"
        /\ result.error = detached.error

C7_Witness ==
    /\ pc = "verified" /\ detached.raised /\ detached.parsedOf # Undefined
    /\ legacy.raised /\ legacy.parsedOf # Undefined
    /\ result.state = "threw"

\* C8 (as claimed): a result with verified = false carries no payload and no
\* certificate chain.
C8_NegativeResultCarriesNothing ==
    (pc = "verified" /\ result.state = "returned" /\ ~result.verified) =>
        /\ result.data = Undefined
        /\ result.certificateChain = Undefined

EmbeddedOf(att) == ParseSignedData(FromBER(att.parsedOf[1]))

C11_ChainRoundTrip ==
    (pc = "verified" /\ sgn.mode = "detached" /\ Untouched) =>
        /\ result.state = "returned"
        /\ result.certificateChain = Some(<<sgn.cert>> \o sgn.chain)
        /\ sgn.chain = <<>> => Len(result.certificateChain[1]) = 1

C11_Witness ==
    /\ pc = "verified" /\ sgn.mode = "detached" /\ Untouched
    /\ sgn.chain # <<>> /\ sgn.chain[1] # sgn.cert
    /\ result.certificateChain = Some(<<sgn.cert>> \o sgn.chain)

\* ====================================================================
\* Properties of the PEM codec
\* ====================================================================
\* the certificates of the pieces that are valid certificate blocks, in file order
RECURSIVE CertsOfPieces(_)
CertsOfPieces(pieces) ==
    IF pieces = <<>> THEN <<>>
    ELSE (IF Head(pieces)[1] = "cert" THEN <<Head(pieces)[2]>> ELSE <<>>)
            \o CertsOfPieces(Tail(pieces))

\* pieces that hold an END CERTIFICATE line, so that a block can be found
BlockKinds == {"cert", "badBase64", "badDer", "noCert"}
\* pieces that are a valid certificate block or no part of any block
CleanKinds == {"cert", "key", "text"}

ParsedFile == pemFrom.kind = "file" /\ pemOut.op = "parseCertificateChain"
KindsOf(pieces) == {pieces[i][1] : i \in 1..Len(pieces)}

\* C12: parseCertificateChain fails with the no-certificates error on a text
\* without any BEGIN CERTIFICATE .. END CERTIFICATE block, and on a text whose
\* N >= 1 blocks are all valid it returns exactly the N certificates, the i-th
\* being the certificate of the i-th block of the text.
C12_ParseChainCountAndOrder ==
    ParsedFile =>
        /\ KindsOf(pemFrom.pieces) \cap BlockKinds = {} =>
              pemOut.threw /\ pemOut.error = ChainFailed \o NoCertificates
        /\ (KindsOf(pemFrom.pieces) \subseteq CleanKinds
                /\ "cert" \in KindsOf(pemFrom.pieces)) =>
              /\ ~pemOut.threw
              /\ pemOut.certificates = CertsOfPieces(pemFrom.pieces)

C12_Witness ==
    /\ ParsedFile
    /\ KindsOf(pemFrom.pieces) = {"cert", "text"}
    /\ Len(pemOut.certificates) = 2
    /\ pemOut.certificates[1] # pemOut.certificates[2]

C12_WitnessNoBlock ==
    /\ ParsedFile
    /\ pemFrom.pieces # <<>>
    /\ pemOut.error = ChainFailed \o NoCertificates

\* a block whose body atob rejects, and a block whose bytes are no complete
\* DER element
InvalidBase64(certBlock) == ~Atob(Base64Of(certBlock)).ok
InvalidDer(certBlock) ==
    /\ Atob(Base64Of(certBlock)).ok
    /\ FromBER(Atob(Base64Of(certBlock)).bytes).offset = -1

DecodeErrors == {NoContent, BadPadding, BadBase64, BadAsn1, BadSchema}

\* C36: when one of the certificate blocks of the text has a body that is
\* no base64 or bytes that are no complete DER element, parseCertificateChain
\* throws a decode error and returns no certificate, however many blocks
\* before that one are valid certificates.
C36_AllOrNothing ==
    pemOut.op = "parseCertificateChain" =>
        With(CertBlocks(pemText), LAMBDA certBlocks :
            (\E i \in 1..Len(certBlocks) :
                 InvalidBase64(certBlocks[i]) \/ InvalidDer(certBlocks[i])) =>
                /\ pemOut.threw
                /\ pemOut.certificates = <<>>
                /\ \E msg \in DecodeErrors : pemOut.error = ChainFailed \o msg)

\* two certificates, then a block of incomplete DER
C36_Witness ==
    /\ ParsedFile
    /\ pemFrom.pieces = <<<<"cert", 1>>, <<"cert", 2>>, <<"badDer", 0>>>>
    /\ pemOut.threw /\ pemOut.certificates = <<>>
    /\ pemOut.error = ChainFailed \o BadAsn1

\* a certificate, then a block whose body is no base64
C36_WitnessBase64 ==
    /\ ParsedFile
    /\ pemFrom.pieces = <<<<"cert", 1>>, <<"badBase64", 0>>>>
    /\ pemOut.threw /\ pemOut.certificates = <<>>
    /\ pemOut.error = ChainFailed \o BadBase64

Armoured == pemFrom.kind = "buffer" /\ pemOut.op = "pemToArrayBuffer"

\* C13: pemToArrayBuffer(arrayBufferToPem(b, label)) returns b for every
\* buffer b, the empty buffer included, and every label.
C13_PemRoundTrip ==
    Armoured => ~pemOut.threw /\ pemOut.bytes = pemFrom.buffer

\* the round trip of every buffer that is not empty
C13_PemRoundTripNonEmpty ==
    (Armoured /\ pemFrom.buffer # <<>>) => ~pemOut.threw /\ pemOut.bytes = pemFrom.buffer

C13_WitnessEmpty ==
    Armoured /\ pemFrom.buffer = <<>> /\ pemOut.threw /\ pemOut.error = NoContent

\* what is left of a hand-written armour without its marker lines and whitespace
Remainder == SelectSeq(pemFrom.buffer, LAMBDA ch : ch \notin Whitespace)
DecodedBody == pemFrom.kind = "body" /\ pemOut.op = "pemToArrayBuffer"

\* C14: when the text left after the marker lines and all whitespace are
\* removed has a length that is no multiple of 4, or holds a character outside
\* the base64 alphabet, pemToArrayBuffer fails with an invalid-base64 error
\* and returns no bytes.
C14_InvalidBase64Rejected ==
    (DecodedBody /\ (Len(Remainder) % 4 # 0
                        \/ \E i \in 1..Len(Remainder) : Remainder[i] \notin Alphabet \cup {Pad})) =>
        /\ pemOut.threw
        /\ pemOut.error \in {BadPadding, BadBase64}
        /\ pemOut.bytes = <<>>

C14_WitnessLength ==
    /\ DecodedBody /\ Len(Remainder) % 4 = 2
    /\ \A i \in 1..Len(Remainder) : Remainder[i] \in Alphabet
    /\ pemOut.error = BadPadding

C14_WitnessCharacter ==
    /\ DecodedBody /\ Len(Remainder) = 4
    /\ \E i \in 1..4 : Remainder[i] = Star
    /\ pemOut.error = BadBase64

\* the lines of a text: the runs between line feeds
RECURSIVE Lines(_)
Lines(text) ==
    LET k == IndexOf(text, <<NL>>, 1)
    IN  IF k = 0 THEN <<text>>
        ELSE <<SubSeq(text, 1, k - 1)>> \o Lines(SubSeq(text, k + 1, Len(text)))

RECURSIVE Concat(_)
Concat(lines) == IF lines = <<>> THEN <<>> ELSE Head(lines) \o Concat(Tail(lines))

BodyLines == LET l == Lines(pemText) IN SubSeq(l, 2, Len(l) - 1)

\* C15: for a buffer that is not empty, arrayBufferToPem(buffer, 'PKCS11') is
\* the line -----BEGIN PKCS11-----, body lines of exactly 64 characters except
\* a last one of 1 to 64, and the line -----END PKCS11-----; the body lines
\* put together are the base64 encoding of the buffer.
C15_ArmourShape ==
    (pemFrom.kind = "buffer" /\ pemFrom.type = "PKCS11" /\ pemFrom.buffer # <<>>) =>
        LET l == Lines(pemText)
            n == Len(BodyLines)
        IN  /\ Len(l) >= 3
            /\ l[1] = <<Dash, Dash, Dash, Dash, Dash, 1, 4, 6, 8, 13, Space,
                        15, 10, 2, 18, 53, 53, Dash, Dash, Dash, Dash, Dash>>
            /\ l[Len(l)] = <<Dash, Dash, Dash, Dash, Dash, 4, 13, 3, Space,
                             15, 10, 2, 18, 53, 53, Dash, Dash, Dash, Dash, Dash>>
            /\ \A i \in 1..(n - 1) : Len(BodyLines[i]) = 64
            /\ Len(BodyLines[n]) \in 1..64
            /\ Concat(BodyLines) = Btoa(pemFrom.buffer)
            /\ Len(Concat(BodyLines)) = 4 * ((Len(pemFrom.buffer) + 2) \div 3)
            /\ Atob(Concat(BodyLines)) = [ok |-> TRUE, bytes |-> pemFrom.buffer]

C15_Witness ==
    /\ pemFrom.kind = "buffer" /\ pemFrom.type = "PKCS11"
    /\ Len(BodyLines) = 3
    /\ Len(BodyLines[1]) = 64 /\ Len(BodyLines[3]) = 4

\* ====================================================================
\* Properties of the socket clients
\* ====================================================================
\* the commands written on socket s, in order
RECURSIVE WrittenIn(_)
WrittenIn(log) ==
    IF log = <<>> THEN <<>>
    ELSE (IF Head(log)[1] = "write" THEN <<Head(log)[3]>> ELSE <<>>) \o WrittenIn(Tail(log))

Written(s) == WrittenIn(socks[s].log)

TcpSign(o) == hsmClient.cls = "tcp" /\ ops[o].kind = "signData"

\* C16: the host:port signData writes SIGN_HASH only after AUTHENTICATE was
\* written and answered with success = true on the same connection; when the
\* answer to AUTHENTICATE reports failure, SIGN_HASH is never written and the
\* call returns a failure that says authentication failed.
C16_AuthenticateBeforeSign ==
    \A o \in OpIds : TcpSign(o) =>
        LET log == socks[o].log
        IN  /\ \A i \in 1..Len(log) : log[i] = <<"write", o, "SIGN_HASH">> =>
                  /\ i = 3
                  /\ log[1] = <<"write", o, "AUTHENTICATE">>
                  /\ log[2] = <<"response", o, "success">>
            /\ (Len(log) >= 2 /\ log[2] = <<"response", o, "failure">>) =>
                  /\ Written(o) = <<"AUTHENTICATE">>
                  /\ ops[o].pc = "done"
                  /\ ops[o].result.returned /\ ~ops[o].result.success
                  /\ ops[o].result.error = "HSM authentication failed: denied"

C16_Witness ==
    /\ TcpSign(1)
    /\ Written(1) = <<"AUTHENTICATE", "SIGN_HASH">>
    /\ ops[1].pc = "done" /\ ops[1].result.success

C16_WitnessFailure ==
    /\ TcpSign(1)
    /\ Len(socks[1].log) = 2 /\ socks[1].log[2] = <<"response", 1, "failure">>
    /\ ops[1].pc = "done"

\* the operation returned what the device answered to its last command
RanThrough(o) == ops[o].pc = "done" /\ ops[o].exit = "response"

IsPrefix(a, b) == Len(a) <= Len(b) /\ a = SubSeq(b, 1, Len(a))

\* C17: every remote operation of either client opens one connection and
\* writes exactly one command on it, except signing, which writes exactly
\* two, an authenticate command and then a sign command (stated for the
\* operations that run through to the device's last answer).
C17_CommandsPerOperation ==
    \A o \in OpIds : RanThrough(o) =>
        /\ ops[o].connects = 1
        /\ IF ops[o].kind = "signData"
           THEN /\ Len(Written(o)) = 2
                /\ Written(o)[1] = "AUTHENTICATE"
                /\ Written(o)[2] \in {"SIGN_HASH", "SIGN_DATA"}
           ELSE Len(Written(o)) = 1

\* the commands of each operation, by client
CommandList(cls, kind) ==
    IF cls = "tcp"
    THEN (CASE kind = "getCertificates"       -> <<"LIST_CERTIFICATES">>
            [] kind = "getCertificateDetails" -> <<"GET_CERTIFICATE">>
            [] kind = "testConnection"        -> <<"PING">>
            [] kind = "signData"              -> <<"AUTHENTICATE", "SIGN_HASH">>)
    ELSE (CASE kind = "testConnection"        -> <<"STATUS">>
            [] kind = "signData"              -> <<"SIGN_DATA">>
            [] kind = "getCertificates"       -> <<>>)

\* C17 (amended): an operation that runs through has opened exactly one
\* connection and written exactly one command on it, except the host:port
\* signData, which has written AUTHENTICATE and then SIGN_HASH; the
\* socket-path signData writes the single command SIGN_DATA. An operation
\* that ends earlier has opened at most one connection and written a prefix
\* of its commands, and a command is written only on the operation's own
\* connection.
C17_CommandsPerOperationByClient ==
    \A o \in OpIds : ops[o].pc = "done" =>
        /\ ops[o].connects <= 1
        /\ IsPrefix(Written(o), CommandList(hsmClient.cls, ops[o].kind))
        /\ \A i \in 1..Len(socks[o].log) : socks[o].log[i][2] = o
        /\ RanThrough(o) =>
              /\ ops[o].connects = 1
              /\ Written(o) = CommandList(hsmClient.cls, ops[o].kind)

C17_Witness ==
    /\ hsmClient.cls = "unix" /\ ops[1].kind = "signData"
    /\ RanThrough(1) /\ ops[1].result.success
    /\ Written(1) = <<"SIGN_DATA">>

\* the ways a method leaves its try block after it called connect()
ExitPaths == {"response", "authFailed", "connectTimeout", "connectError",
              "commandTimeout", "socketError"}

\* C18: whenever a remote operation has returned to its caller, on whatever
\* exit path, the socket it opened is destroyed and the socket field of the
\* client is null.
C18_Teardown ==
    \A o \in OpIds : ops[o].pc = "done" =>
        /\ hsmClient.socket = 0
        /\ socks[o].state \in {"none", "destroyed"}
        /\ ops[o].connects > 0 => socks[o].state = "destroyed"
        /\ ops[o].exit \in ExitPaths => ops[o].connects = 1

C18_Witness ==
    /\ ops[1].pc = "done" /\ ops[1].exit = "commandTimeout"
    /\ socks[1].state = "destroyed" /\ socks[1].by = "disconnect"
    /\ hsmClient.socket = 0

\* every exit path is taken by some operation
C18_WitnessResponse       == ops[1].pc = "done" /\ ops[1].exit = "response" /\ ~ops[1].result.success
C18_WitnessAuthFailed     == ops[1].pc = "done" /\ ops[1].exit = "authFailed"
C18_WitnessConnectTimeout == ops[1].pc = "done" /\ ops[1].exit = "connectTimeout"
C18_WitnessConnectError   == ops[1].pc = "done" /\ ops[1].exit = "connectError"
C18_WitnessSocketError    == ops[1].pc = "done" /\ ops[1].exit = "socketError"

\* the state of the connection of operation op with socket sock
ConnStateOf(op, sock) ==
    IF sock.state = "connecting" THEN "Connecting"
    ELSE IF sock.state # "open" THEN "Disconnected"
    ELSE IF op.pc = "awaiting" THEN "AwaitingResponse"
    ELSE "Connected"

LifecycleEdges ==
    {<<"Disconnected", "Connecting">>, <<"Connecting", "Connected">>,
     <<"Connected", "AwaitingResponse">>, <<"AwaitingResponse", "Disconnected">>,
     <<"Connecting", "Disconnected">>, <<"Connected", "Disconnected">>}

\* a step of operation o that keeps to the edges, writes a command only in
\* state Connected, and does not leave Disconnected again once it connected
LifecycleStep(o, edges) ==
    LET a == ConnStateOf(ops[o], socks[o])
        b == ConnStateOf(ops'[o], socks'[o])
    IN  /\ a = b \/ <<a, b>> \in edges
        /\ Len(socks'[o].log) > Len(socks[o].log)
              /\ socks'[o].log[Len(socks'[o].log)][1] = "write" => a = "Connected"
        /\ (a = "Disconnected" /\ ops[o].pc # "idle") => b = "Disconnected"

\* C19: during one remote operation the connection state changes only along
\* Disconnected -> Connecting -> Connected -> AwaitingResponse -> Disconnected
\* (Connecting, Connected and AwaitingResponse can each go to Disconnected);
\* a command is written only in state Connected and nothing is written after
\* the state returned to Disconnected.
C19_Lifecycle ==
    [][\A o \in OpIds : LifecycleStep(o, LifecycleEdges)]_vars

\* C19 (amended): as C19, with one more edge: AwaitingResponse -> Connected,
\* taken by the host:port signData when AUTHENTICATE is answered with
\* success, from where SIGN_HASH is written.
C19_LifecycleWithSecondCommand ==
    [][\A o \in OpIds :
          /\ LifecycleStep(o, LifecycleEdges \cup {<<"AwaitingResponse", "Connected">>})
          /\ (ConnStateOf(ops[o], socks[o]) = "AwaitingResponse"
                 /\ ConnStateOf(ops'[o], socks'[o]) = "Connected")
                => TcpSign(o) /\ ops[o].sent = 1]_vars

C19_Witness ==
    /\ TcpSign(1)
    /\ ops[1].pc = "ready" /\ ops[1].sent = 1
    /\ ConnStateOf(ops[1], socks[1]) = "Connected"

\* C20: when the connection is not made before the timer fires, the socket in
\* progress is destroyed by the timer and connect fails with the timeout
\* error; when the socket reports an error first, connect fails with the
\* connection-failed error and the timer is cleared; the timer never fires
\* for a connect that has succeeded or failed.
C20_Connect ==
    \A o \in OpIds :
        /\ ops[o].exit = "connectTimeout" =>
              /\ socks[o].state = "destroyed" /\ socks[o].by = "timer"
              /\ ops[o].result.returned /\ ~ops[o].result.success
              /\ ops[o].result.error \in {"HSM socket connection timeout",
                                          "HSM Unix socket connection timeout"}
        /\ ops[o].exit = "connectError" =>
              /\ ops[o].connTimer = "cleared"
              /\ ops[o].result.returned /\ ~ops[o].result.success
              /\ ops[o].result.error = "HSM socket connection failed: ECONNREFUSED"
        /\ ops[o].connTimer = "fired" =>
              ops[o].exit = "connectTimeout" /\ ops[o].sent = 0
        /\ (ops[o].pc \in {"ready", "awaiting"} \/ ops[o].sent > 0)
              => ops[o].connTimer = "cleared"

C20_Witness ==
    /\ ops[1].pc = "done" /\ ops[1].exit = "connectTimeout"
    /\ socks[1].by = "timer"
    /\ ops[1].result.error = "HSM Unix socket connection timeout"

C20_WitnessError ==
    /\ ops[1].pc = "done" /\ ops[1].exit = "connectError"
    /\ ops[1].connTimer = "cleared"

\* the listener of the command that operation o sent last
LastListener(o) ==
    CHOOSE l \in {socks[o].listeners[i] : i \in 1..Len(socks[o].listeners)} :
        l.op = o /\ l.n = ops[o].sent

\* C21: while a response is awaited the command timer is pending; when it
\* fires, no complete response has arrived (nothing, or text that completes
\* no frame), the operation returns the failure 'HSM command timeout' with no
\* data in it, and the socket is destroyed and forgotten.
C21_CommandTimeout ==
    \A o \in OpIds :
        /\ ops[o].pc = "awaiting" => ops[o].cmdTimer = "pending"
        /\ ops[o].cmdTimer = "fired" => ops[o].exit = "commandTimeout"
        /\ ops[o].exit = "commandTimeout" =>
              /\ ops[o].pc = "done"
              /\ ~OnData(hsmClient.cls, LastListener(o).buf).settled
              /\ ops[o].result = Failure("HSM command timeout")
              /\ ops[o].result.data = <<>>
              /\ socks[o].state = "destroyed"
              /\ hsmClient.socket = 0

\* the timer fires on a response that was cut in the middle of a character
C21_Witness ==
    /\ ops[1].pc = "done" /\ ops[1].exit = "commandTimeout"
    /\ LastListener(1).bytes = <<"T", "c1">>
    /\ LastListener(1).buf = <<"T", Replacement>>

\* the timer fires in silence, on the second command of signData
C21_WitnessSilence ==
    /\ TcpSign(1) /\ ops[1].sent = 2
    /\ ops[1].exit = "commandTimeout" /\ LastListener(1).bytes = <<>>

\* the exits of an operation that met a failure
FailureExits == {"connectTimeout", "connectError", "commandTimeout", "socketError",
                 "authFailed", "notConnected", "precheck"}

NoDuplicates(seq) == \A i, j \in 1..Len(seq) : seq[i] = seq[j] => i = j

\* a step in which operation o connects at most once, writes no command a
\* second time, ends with a failure result when it meets a connect
\* failure, a socket error or a timeout, and does nothing once it has ended
RetryFree(o) ==
    /\ ops'[o].connects <= 1
    /\ NoDuplicates(WrittenIn(socks'[o].log))
    /\ (ops[o].pc # "done" /\ ops'[o].exit \in FailureExits) =>
          /\ ops'[o].pc = "done"
          /\ ops'[o].result.returned /\ ~ops'[o].result.success
    /\ (ops[o].pc = "done" /\ ops'[o].pc # "idle") =>
          /\ ops'[o] = ops[o]
          /\ socks'[o].log = socks[o].log

\* a step in which the device answers the last command of o with a failure
FailureResponse(o) ==
    /\ ops[o].pc = "awaiting" /\ ops'[o].pc = "done"
    /\ ops'[o].exit \in {"response", "authFailed"}
    /\ socks'[o].log[Len(socks'[o].log)] = <<"response", o, "failure">>

\* C23: within one operation connect is called at most once and each
\* command is written at most once; after a connect failure, a socket
\* error, a timeout or a failure response the operation neither reconnects
\* nor resends, and it returns the failure.
C23_NoRetry ==
    [][\A o \in OpIds :
          /\ RetryFree(o)
          /\ FailureResponse(o) => ~ops'[o].result.success]_vars

\* C23 (amended): as C23, but the socket-path testConnection returns
\* success = true whatever the device answered to STATUS.
C23_NoRetryButStatus ==
    [][\A o \in OpIds :
          /\ RetryFree(o)
          /\ FailureResponse(o) =>
                (ops'[o].result.success <=>
                    (hsmClient.cls = "unix" /\ ops[o].kind = "testConnection"))]_vars

\* an operation ended by a socket error after its command was written once
C23_WitnessSocketError ==
    /\ ops[1].pc = "done" /\ ops[1].exit = "socketError"
    /\ ops[1].connects = 1 /\ Len(Written(1)) = 1
    /\ ~ops[1].result.success

\* the device answers STATUS with a failure: one connection, one command,
\* and the socket-path testConnection reports success
C23_Witness ==
    /\ hsmClient.cls = "unix" /\ ops[1].kind = "testConnection"
    /\ ops[1].pc = "done" /\ ops[1].exit = "response"
    /\ socks[1].log = <<<<"write", 1, "STATUS">>, <<"response", 1, "failure">>>>
    /\ ops[1].connects = 1 /\ ops[1].result.success

\* C24: when two operations are in progress on one client object, each
\* uses its own socket all along: no command of one operation is written on
\* the socket of the other, no socket is destroyed by the timer or the
\* disconnect of the other operation, and when the operations have returned
\* every socket that was opened is destroyed.
C24_TransportOwnership ==
    \A o \in OpIds :
        /\ \A i \in 1..Len(socks[o].log) : socks[o].log[i][2] = o
        /\ (socks[o].state = "destroyed" /\ socks[o].by \in {"disconnect", "timer"})
              => ops[o].pc = "done"
        /\ (\A p \in OpIds : ops[p].pc \in {"idle", "done"})
              => socks[o].state \in {"none", "destroyed"}

\* the parts of C24, one by one
C24_NoForeignCommand ==
    \A o \in OpIds : \A i \in 1..Len(socks[o].log) : socks[o].log[i][2] = o

C24_NoForeignDestroy ==
    \A o \in OpIds :
        (socks[o].state = "destroyed" /\ socks[o].by \in {"disconnect", "timer"})
            => ops[o].pc = "done"

C24_NoLeak ==
    (\A p \in OpIds : ops[p].pc \in {"idle", "done"})
        => \A o \in OpIds : socks[o].state \in {"none", "destroyed"}

\* ====================================================================
\* Properties of the calls on the key store
\* ====================================================================
\* C22: every operation of the socket clients reports failure by returning a
\* result with success = false and an error message; none throws to its
\* caller. (Here: the operations on the key store.)
C22_TaggedResults ==
    fsOut.op # "none" =>
        /\ fsOut.result.how # "threw"
        /\ fsOut.result.how = "response" /\ ~fsOut.result.success => fsOut.result.error # ""

\* the same for every operation but getSoftCards
C22_TaggedExceptGetSoftCards ==
    (fsOut.op \notin {"none", "getSoftCards"}) =>
        /\ fsOut.result.how \in {"response", "connects"}
        /\ fsOut.result.how = "response" /\ ~fsOut.result.success => fsOut.result.error # ""

\* the operations that reach the socket return a result on every exit path
C22_SocketOperationsTagged ==
    \A o \in OpIds : ops[o].pc = "done" =>
        /\ ops[o].result.returned
        /\ ~ops[o].result.success => ops[o].result.error # ""

\* the file names that follow the naming convention, and those of
\* certificates, by name
KeyOrCertFiles == {<<"a", ".crt">>, <<"b", ".crt">>, <<"k", ".key">>, <<"key_", "1">>}
CertFiles == {<<"a", ".crt">>, <<"b", ".crt">>}

\* the softcards that a returned list holds under name n
Listed(cards, n) == {cards[i] : i \in {j \in 1..Len(cards) : cards[j].name = n}}

\* the entries that are directories, readable or not
Subdirectories == {"dir", "locked"}

C25_WitnessKeyOnly ==
    /\ fsOut.op = "getSoftCards"
    /\ store.entries["card2"] = [type |-> "dir", files |-> {<<"key_", "1">>}, unreadable |-> {}]
    /\ \E c \in Listed(fsOut.result.value, "card2") : c.isValid /\ c.certificates = <<>>

\* what the store holds now
RootReadable == store.root = "present"
ValidNow(n) ==
    /\ RootReadable
    /\ store.entries[n].type = "dir"
    /\ store.entries[n].files \cap KeyOrCertFiles # {}
ListedNow(n) == RootReadable /\ (ValidNow(n) \/ store.entries[n].type = "locked")

\* the operation of the call, on a store
OutcomeOn(st, call) ==
    CASE call.op = "getSoftCards" -> getSoftCards(st)
      [] call.op = "getCertificates" -> getCertificates(st)
      [] call.op = "getSoftCardDetails" -> getSoftCardDetails(st, call.cardName)
      [] call.op = "signData" -> signDataLookup(st, call.cardName)
      [] OTHER -> FsNone

\* C26: what getSoftCards, getCertificates, getSoftCardDetails and signData
\* hand to their caller is the outcome of the operation on the store as it
\* is at the call, whatever the call before saw: the softcards listed, the
\* certificates, the softcard found and the softcard signData accepts are
\* those of the store now.
C26_NoSoftcardCaching ==
    fsOut.op # "none" =>
        /\ fsOut.result = OutcomeOn(store, fsOut)
        /\ fsOut.op = "signData" =>
              (fsOut.result.how = "connects" <=> ValidNow(fsOut.cardName))
        /\ fsOut.op = "getSoftCardDetails" =>
              (fsOut.result.success <=> ListedNow(fsOut.cardName))
        /\ fsOut.op = "getSoftCards" =>
              /\ fsOut.result.how = "cards" <=> RootReadable
              /\ fsOut.result.how = "cards" => \A n \in CardNames :
                    (\E c \in Listed(fsOut.result.value, n) : c.isValid) <=> ValidNow(n)
        /\ fsOut.op = "getCertificates" =>
              /\ fsOut.result.success <=> RootReadable
              /\ fsOut.result.success =>
                    {fsOut.result.value[i].cardName : i \in DOMAIN fsOut.result.value}
                        = {n \in CardNames :
                              /\ ValidNow(n)
                              /\ (store.entries[n].files \cap CertFiles)
                                     \ store.entries[n].unreadable # {}}

\* the call before saw card1 valid, the store lost it, and signData refuses it
C26_Witness ==
    /\ fsOut.op = "signData"
    /\ fsOut.cardName = "card1"
    /\ "card1" \in fsSeen
    /\ ~ValidNow("card1")
    /\ fsOut.result = FsFailure("Softcard 'card1' not found or invalid")

\* the call before saw no card2, the store gained it, and the list has it
C26_WitnessGained ==
    /\ fsOut.op = "getSoftCards"
    /\ "card2" \notin fsSeen
    /\ ValidNow("card2")
    /\ \E c \in Listed(fsOut.result.value, "card2") : c.isValid

\* ====================================================================
\* Properties of the socket clients: framing, termination, outcomes
\* ====================================================================
\* operation o has sent a command on its socket
HasSent(o) == ops[o].sent >= 1 /\ socks[o].listeners # <<>>

\* what the response to the last command of o parses to when its bytes
\* arrive in one chunk
InOneChunk(o) == JsonParse(Utf8ToString(LastListener(o).bytes))

\* the host:port sendCommand on its accumulated text: no result while the
\* text is no JSON document, the parse of the text once it is one
C27_FramingOfAccumulatedText ==
    \A o \in OpIds : (hsmClient.cls = "tcp" /\ HasSent(o)) =>
        /\ ops[o].pc = "awaiting" => ~JsonParse(LastListener(o).buf).valid
        /\ ops[o].exit = "response" =>
              /\ JsonParse(LastListener(o).buf).valid
              /\ ops[o].result
                    = ReplyOf("tcp", ops[o].kind, JsonParse(LastListener(o).buf))

\* C27: in host:port mode, however a response is split into chunks,
\* sendCommand has no result while the text it has is no complete JSON
\* document, it returns the parse of the text when the chunk that completes
\* it arrives, and the result is the one of the response in one chunk.
C27_TcpFraming ==
    /\ C27_FramingOfAccumulatedText
    /\ \A o \in OpIds : (hsmClient.cls = "tcp" /\ HasSent(o)) =>
          /\ ops[o].pc = "awaiting" => ~InOneChunk(o).valid
          /\ ops[o].exit = "response" =>
                ops[o].result = ReplyOf("tcp", ops[o].kind, InOneChunk(o))

\* a response cut between two characters gives the result of the whole
C27_WitnessSplit ==
    /\ hsmClient.cls = "tcp" /\ ops[1].exit = "response"
    /\ socks[1].recv = 3
    /\ LastListener(1).bytes = Response
    /\ ops[1].result = Success(<<"ch">>)

\* a response cut inside a character gives two replacement characters
C27_WitnessSplitCharacter ==
    /\ hsmClient.cls = "tcp" /\ ops[1].exit = "response"
    /\ LastListener(1).bytes = Response
    /\ ops[1].result = Success(<<Replacement, Replacement>>)

HasLineFeed(text) == \E i \in 1..Len(text) : text[i] = "nl"

\* the last entry of the log of socket s
LastLogged(s) == socks[s].log[Len(socks[s].log)]

\* C28: in socket-path mode sendCommand waits while its text has no line
\* feed and resolves at the chunk that brings the first one; if the trimmed
\* text is no JSON then (junk, or a response that is not complete), it
\* resolves with success = true and the trimmed text as data, and else with
\* the parsed response.
C28_UnixFraming ==
    \A o \in OpIds : (hsmClient.cls = "unix" /\ HasSent(o)) =>
        LET text == LastListener(o).buf
        IN  /\ ops[o].pc = "awaiting" => ~HasLineFeed(text)
            /\ ops[o].exit = "response" =>
                  /\ HasLineFeed(text)
                  /\ ~JsonParse(text).valid =>
                        /\ LastLogged(o) = <<"response", o, "success">>
                        /\ ops[o].result
                              = ReplyOf("unix", ops[o].kind,
                                        [valid |-> FALSE, success |-> TRUE,
                                         data |-> Trim(text)])
                  /\ JsonParse(text).valid =>
                        ops[o].result = ReplyOf("unix", ops[o].kind, JsonParse(text))

\* a response that is cut short, then a line feed: success with the raw text
C28_Witness ==
    /\ hsmClient.cls = "unix" /\ ops[1].kind = "signData"
    /\ ops[1].exit = "response"
    /\ LastListener(1).buf = <<"T", "nl">>
    /\ ops[1].result = Success(<<"T">>)

\* two chunks of junk, then a line feed: success with the junk as data
C28_WitnessJunk ==
    /\ hsmClient.cls = "unix" /\ ops[1].exit = "response"
    /\ LastListener(1).buf = <<"junk", "junk", "nl">>
    /\ ops[1].result = Success(<<"junk", "junk">>)

\* a whole failure response and a line feed: the parsed response
C28_WitnessParsed ==
    /\ hsmClient.cls = "unix" /\ ops[1].kind = "signData"
    /\ ops[1].exit = "response"
    /\ LastListener(1).buf = <<"F", "nl">>
    /\ ~ops[1].result.success

\* operation o is called and has not returned
Running(o) == ops[o].pc \in {"connecting", "ready", "awaiting"}

\* C29: every operation that is called returns a result, whatever the peer
\* does: the connect timer and the command timer end the waits that the
\* peer does not end.
C29_Termination ==
    \A o \in OpIds : Running(o) ~> (ops[o].pc = "done" /\ ops[o].result.returned)

\* the peer closed the connection without an error; the command timer
\* ended the operation
C29_Witness ==
    /\ ops[1].pc = "done" /\ ops[1].exit = "commandTimeout"
    /\ socks[1].by = "peer"
    /\ ops[1].result = Failure(CommandTimeoutMsg)

\* the peer never accepted the connection
C29_WitnessNeverAccepts ==
    /\ ops[1].pc = "done" /\ ops[1].exit = "connectTimeout"
    /\ socks[1].log = <<>> /\ socks[1].by = "timer"

\* the peer sent bytes that complete no frame, as many as it can
C29_WitnessNoFrame ==
    /\ ops[1].pc = "done" /\ ops[1].exit = "commandTimeout"
    /\ socks[1].recv = MaxChunks

\* the outcome of the connect() of an operation, and of the sendCommand()
\* it called last: "none" while the promise is pending
ConnectOutcome(op) ==
    IF op.connTimer \in {"none", "pending"} THEN "none"
    ELSE IF op.connTimer = "fired" THEN "timeout"
    ELSE IF op.exit = "connectError" THEN "error"
    ELSE "connected"

CommandOutcome(op) ==
    IF op.cmdTimer \in {"none", "pending"} THEN "none"
    ELSE IF op.cmdTimer = "fired" THEN "timeout"
    ELSE IF op.exit = "socketError" THEN "error"
    ELSE "response"

\* operation o is where its outcomes put it: it waits while the promise it
\* awaits has no outcome, and what it returned is what the one outcome of
\* its last await makes it return
OneOutcome(o) ==
    LET op == ops[o]
    IN  /\ op.pc = "connecting" => ConnectOutcome(op) = "none" /\ op.cmdTimer = "none"
        /\ op.pc \in {"ready", "awaiting"} => ConnectOutcome(op) = "connected"
        /\ op.pc = "ready" => CommandOutcome(op) \in {"none", "response"}
        /\ op.pc = "awaiting" => op.cmdTimer = "pending"
        /\ op.pc = "done" =>
              /\ op.result.returned
              /\ op.exit = "connectTimeout" =>
                    /\ ConnectOutcome(op) = "timeout" /\ op.cmdTimer = "none"
                    /\ op.result = Failure(ConnectTimeoutMsg(hsmClient.cls))
              /\ op.exit = "connectError" =>
                    /\ ConnectOutcome(op) = "error" /\ op.cmdTimer = "none"
                    /\ op.result = Failure(ConnectFailedMsg)
              /\ op.exit = "commandTimeout" =>
                    /\ ConnectOutcome(op) = "connected" /\ CommandOutcome(op) = "timeout"
                    /\ op.result = Failure(CommandTimeoutMsg)
              /\ op.exit = "socketError" =>
                    /\ ConnectOutcome(op) = "connected" /\ CommandOutcome(op) = "error"
                    /\ op.result = Failure(SocketErrorMsg)
              /\ op.exit \in {"response", "authFailed"} =>
                    /\ ConnectOutcome(op) = "connected" /\ CommandOutcome(op) = "response"
              /\ (ConnectOutcome(op) = "timeout" \/ op.connTimer = "fired")
                    => op.exit = "connectTimeout"
              /\ op.cmdTimer = "fired" => op.exit = "commandTimeout"

\* a step that leaves the outcomes that operation o has as they are
OutcomesKept(o) ==
    ops'[o].pc # "idle" =>
        /\ ConnectOutcome(ops[o]) # "none"
              => ConnectOutcome(ops'[o]) = ConnectOutcome(ops[o])
        /\ (CommandOutcome(ops[o]) # "none" /\ ops'[o].sent = ops[o].sent)
              => CommandOutcome(ops'[o]) = CommandOutcome(ops[o])
        /\ ops[o].result.returned
              => ops'[o].result = ops[o].result /\ ops'[o].exit = ops[o].exit

\* C30: every connect and every sendCommand of an operation has one outcome,
\* the first of connect callback, response, error and timer to occur: the
\* operation goes on or returns by that outcome, and no later step changes
\* an outcome or the result that was returned.
C30_SingleOutcome ==
    [][\A o \in OpIds : OutcomesKept(o) /\ OneOutcome(o)']_vars

\* signData of the host:port client has returned the response to SIGN_HASH;
\* the listener of AUTHENTICATE, whose call had its outcome, heard it too
C30_Witness ==
    /\ TcpSign(1) /\ ops[1].pc = "done" /\ ops[1].exit = "response"
    /\ Len(socks[1].listeners) = 2
    /\ socks[1].listeners[1].bytes = Response \o Response
    /\ socks[1].listeners[2].bytes = Response
    /\ ops[1].result = Success(<<"ch">>)

\* bytes that complete no frame, then a socket error: the error is the
\* outcome, and both timers are cleared
C30_WitnessErrorWins ==
    /\ ops[1].pc = "done" /\ ops[1].exit = "socketError"
    /\ socks[1].recv >= 1
    /\ ops[1].cmdTimer = "cleared" /\ ops[1].connTimer = "cleared"

\* a step of the host:port signData o after which SIGN_HASH is written: the
\* listener of AUTHENTICATE is still on the socket; the listener of SIGN_HASH
\* starts with no text, and every chunk goes to both
SignStep(o) ==
    LET ls == socks'[o].listeners
        old == socks[o].listeners
    IN  /\ Len(ls) = 2 /\ ls[1].n = 1 /\ ls[2].n = 2
        /\ ops[o].sent = 1 =>
              /\ ls[1] = old[1]
              /\ ls[2].bytes = <<>> /\ ls[2].buf = <<>>
        /\ ops[o].sent = 2 =>
              \E chunk \in Chunks \cup {<<>>} :
                  /\ ls[1].bytes = old[1].bytes \o chunk
                  /\ ls[2].bytes = old[2].bytes \o chunk
                  /\ ls[2].buf = old[2].buf \o Utf8ToString(chunk)
        /\ ops'[o].pc = "awaiting" => ~JsonParse(ls[2].buf).valid
        /\ ops'[o].exit = "response" =>
              /\ JsonParse(ls[2].buf).valid
              /\ ops'[o].result = ReplyOf("tcp", "signData", JsonParse(ls[2].buf))

\* C31: in the host:port signData the data listener of AUTHENTICATE stays
\* on the socket while SIGN_HASH waits for its response; the result of
\* SIGN_HASH is the parse of the bytes that arrived after SIGN_HASH was
\* written and of nothing else, and what the listener of AUTHENTICATE makes
\* of its text does not end or change the sign step.
C31_ResponseSeparation ==
    [][\A o \in OpIds :
          (hsmClient'.cls = "tcp" /\ ops'[o].kind = "signData" /\ ops'[o].sent = 2)
              => SignStep(o)]_vars

\* a line feed arrives after SIGN_HASH was written: the text of the listener
\* of AUTHENTICATE is a whole response once more, and the sign step waits
C31_Witness ==
    /\ TcpSign(1) /\ ops[1].sent = 2 /\ ops[1].pc = "awaiting"
    /\ socks[1].listeners[1].bytes = Response \o <<"nl">>
    /\ JsonParse(socks[1].listeners[1].buf).valid
    /\ socks[1].listeners[2].bytes = <<"nl">>

\* AUTHENTICATE answered with success, SIGN_HASH with a failure: the failure
\* is the result
C31_WitnessFailure ==
    /\ TcpSign(1) /\ ops[1].pc = "done" /\ ops[1].exit = "response"
    /\ socks[1].listeners[1].bytes = Response \o <<"F">>
    /\ socks[1].listeners[2].bytes = <<"F">>
    /\ ops[1].result = Failure("denied")

\* operation o is testConnection of the socket-path client
UnixTest(o) == hsmClient.cls = "unix" /\ ops[o].kind = "testConnection"

\* C33: the socket-path testConnection returns a failure without making a
\* connection when the socket file is missing; once connected, when a framed
\* response to STATUS arrives it returns success = true whatever the success
\* flag of the response is, with the data of the response or, without data,
\* a fixed text; it returns success in no other case.
C33_UnixTestConnection ==
    \A o \in OpIds : UnixTest(o) =>
        /\ ops[o].exit = "precheck" =>
              /\ ops[o].result = Failure(SocketMissingMsg)
              /\ ops[o].connects = 0
              /\ socks[o].state = "none" /\ socks[o].log = <<>>
        /\ ops[o].exit = "response" =>
              /\ Written(o) = <<"STATUS">>
              /\ LastLogged(o) \in {<<"response", o, "success">>, <<"response", o, "failure">>}
              /\ ops[o].result.success
              /\ ops[o].result.data # <<>>
              /\ JsonParse(LastListener(o).buf).valid =>
                    ops[o].result.data \in {JsonParse(LastListener(o).buf).data, ConnectionOk}
        /\ ops[o].result.success => ops[o].exit = "response"

\* the device answers STATUS with success = false: the result is success
\* with the fixed text
C33_Witness ==
    /\ UnixTest(1) /\ ops[1].pc = "done" /\ ops[1].exit = "response"
    /\ LastListener(1).buf = <<"F", "nl">>
    /\ LastLogged(1) = <<"response", 1, "failure">>
    /\ ops[1].result = Success(ConnectionOk)

\* the socket file is missing
C33_WitnessMissing ==
    /\ UnixTest(1) /\ ops[1].pc = "done" /\ ops[1].exit = "precheck"
    /\ ops[1].result = Failure(SocketMissingMsg) /\ socks[1].state = "none"

\* ====================================================================
\* Properties of signData on the key store and the socket
\* ====================================================================
\* C32: when the store holds no softcard of the requested name with
\* isValid = true at the call, the socket-path signData returns a failure
\* and has made no socket and written no command; a connection is made only
\* for a softcard that the store holds and that is valid.
C32_SoftcardPreCheck ==
    \A o \in OpIds : (fsOut.op = "signData" /\ ops[o].pc # "idle") =>
        /\ ~ValidNow(fsOut.cardName) =>
              /\ ops[o].pc = "done"
              /\ ops[o].result.returned /\ ~ops[o].result.success
              /\ ops[o].connects = 0
              /\ socks[o].state = "none" /\ socks[o].log = <<>>
              /\ hsmClient.socket = 0
        /\ (ops[o].connects >= 1 \/ socks[o].state # "none" \/ socks[o].log # <<>>)
              => ValidNow(fsOut.cardName)

\* the directory of the softcard holds an unrelated file only: a failure,
\* no connection
C32_Witness ==
    /\ fsOut.op = "signData" /\ fsOut.cardName = "card1"
    /\ store.root = "present"
    /\ store.entries["card1"] = [type |-> "dir", files |-> {<<"a", ".crt", ".bak">>}, unreadable |-> {}]
    /\ ops[1].pc = "done" /\ ops[1].exit = "precheck"
    /\ ~ops[1].result.success /\ socks[1].state = "none"

\* the softcard is valid: a connection, and SIGN_DATA on it
C32_WitnessConnects ==
    /\ fsOut.op = "signData" /\ ValidNow(fsOut.cardName)
    /\ Written(1) = <<"SIGN_DATA">>
    /\ ops[1].pc = "done" /\ ops[1].result.success

\* ====================================================================
\* Properties of the signer-infos
\* ====================================================================
\* createSignerInfoWithHSMSignature returned a SignerInfo
SignerInfoBuilt == signer.called /\ ~signer.threw

\* C34: whatever the hashAlgorithm argument is, the SignerInfo that
\* createSignerInfoWithHSMSignature returns has the SHA-256 identifier as
\* digest algorithm and the RSA-with-SHA-256 identifier as signature
\* algorithm, and is the one it returns for 'SHA-256'.
C34_AlgorithmIdentifiers ==
    SignerInfoBuilt =>
        /\ \A i \in 1..Len(signer.signerInfos) :
              /\ signer.signerInfos[i].digestAlgorithm = "2.16.840.1.101.3.4.2.1"
              /\ signer.signerInfos[i].signatureAlgorithm = "1.2.840.113549.1.1.11"
        /\ signer.signerInfos # <<>>
        /\ \A name \in HashNames :
              signer.signerInfos
                 = createSignerInfoWithHSMSignature(signer.certificate, signer.hsmSignature,
                                                    name).signerInfos

\* the caller asked for SHA-384
C34_Witness ==
    /\ SignerInfoBuilt /\ signer.hashAlgorithm = "SHA-384"
    /\ signer.hsmSignature = Btoa(CryptoSign(1, <<>>))
    /\ signer.signerInfos[1].digestAlgorithm = OidSha256
    /\ signer.signerInfos[1].signature = CryptoSign(1, <<>>)

\* the signature part of the envelope that signData returned, parsed
EnvelopeOf(bytes, mode) ==
    ParseSignedData(FromBER(IF mode = "detached"
                            THEN Slice(bytes, PrefixLen, PrefixLen + GetUint32(bytes))
                            ELSE bytes))

\* C35: the envelope that signData returns, detached or encapsulated, has
\* the signer certificate as its signer identifier, whatever the additional
\* chain holds; createSignerInfoWithHSMSignature returns one SignerInfo,
\* whose signer identifier is that of the certificate it was given.
C35_SignerIdentification ==
    /\ (pc = "ready" /\ sgn.mode \in {"detached", "encapsulated"}) =>
          /\ EnvelopeOf(sgn.bytes, sgn.mode).ok
          /\ EnvelopeOf(sgn.bytes, sgn.mode).sd.sid = sgn.cert
          /\ \A i \in 1..Len(sgn.chain) :
                sgn.chain[i] # sgn.cert => EnvelopeOf(sgn.bytes, sgn.mode).sd.sid # sgn.chain[i]
    /\ SignerInfoBuilt =>
          /\ Len(signer.signerInfos) = 1
          /\ signer.signerInfos[1].sid = signer.certificate

\* signData with a chain that holds another certificate
C35_Witness ==
    /\ pc = "ready" /\ sgn.mode = "detached"
    /\ sgn.cert = 2 /\ sgn.chain = <<1>>
    /\ EnvelopeOf(sgn.bytes, sgn.mode).sd.certs = <<2, 1>>
    /\ EnvelopeOf(sgn.bytes, sgn.mode).sd.sid = 2

\* createSignerInfoWithHSMSignature on certificate 2
C35_WitnessHsm ==
    /\ SignerInfoBuilt /\ signer.certificate = 2
    /\ signer.signerInfos[1].sid = 2

\* the places of a softcard and of a file in the orders of fs.readdir
CardIndex(n) == CHOOSE i \in DOMAIN ReaddirOrder : ReaddirOrder[i] = n
FileIndex(f) == CHOOSE i \in DOMAIN FileOrder : FileOrder[i] = f

\* the .crt files of a valid softcard that fs.readFile reads
ReadableCerts(n) ==
    IF ValidNow(n)
    THEN {f \in store.entries[n].files : EndsWith(f, ".crt")} \ store.entries[n].unreadable
    ELSE {}

\* C37: when the key store can be listed, getCertificates of the socket-path
\* client returns success = true with one entry for each .crt file of each
\* valid softcard that can be read and no other entry, in the order of the
\* softcards and then of the files; a file that cannot be read is left out
\* and a softcard with isValid = false has no entry.
C37_CertificateListing ==
    (fsOut.op = "getCertificates" /\ RootReadable) =>
        With(fsOut.result, LAMBDA r :
            /\ r.how = "response" /\ r.success
            /\ {<<r.value[i].cardName, r.value[i].certFile>> : i \in DOMAIN r.value}
                  = {p \in CardNames \X FileNames : p[2] \in ReadableCerts(p[1])}
            /\ \A i, j \in DOMAIN r.value : i < j =>
                  \/ CardIndex(r.value[i].cardName) < CardIndex(r.value[j].cardName)
                  \/ /\ r.value[i].cardName = r.value[j].cardName
                     /\ FileIndex(r.value[i].certFile) < FileIndex(r.value[j].certFile))

\* a.crt of card1 cannot be read: the listing succeeds with the other three
C37_Witness ==
    /\ fsOut.op = "getCertificates"
    /\ store.root = "present"
    /\ store.entries["card1"] = [type |-> "dir", files |-> {<<"a", ".crt">>, <<"b", ".crt">>},
                                 unreadable |-> {<<"a", ".crt">>}]
    /\ store.entries["card2"] = [type |-> "dir", files |-> {<<"a", ".crt">>, <<"b", ".crt">>},
                                 unreadable |-> {}]
    /\ fsOut.result.success
    /\ fsOut.result.value =
          <<[cardName |-> "card1", certFile |-> <<"b", ".crt">>, keyId |-> <<"b">>],
            [cardName |-> "card2", certFile |-> <<"a", ".crt">>, keyId |-> <<"a">>],
            [cardName |-> "card2", certFile |-> <<"b", ".crt">>, keyId |-> <<"b">>]>>

\* card1 cannot be read and is listed with isValid = false: no entry for it
C37_WitnessInvalid ==
    /\ fsOut.op = "getCertificates"
    /\ store.root = "present"
    /\ store.entries["card1"] = [type |-> "locked", files |-> {<<"a", ".crt">>},
                                 unreadable |-> {}]
    /\ store.entries["card2"] = [type |-> "dir", files |-> {<<"b", ".crt">>, <<"k", ".key">>},
                                 unreadable |-> {}]
    /\ fsOut.result.success
    /\ fsOut.result.value =
          <<[cardName |-> "card2", certFile |-> <<"b", ".crt">>, keyId |-> <<"b">>]>>

\* the only certificate cannot be read: success with no entries
C37_WitnessNone ==
    /\ fsOut.op = "getCertificates"
    /\ store.root = "present"
    /\ store.entries["card1"] = [type |-> "dir", files |-> {<<"a", ".crt">>},
                                 unreadable |-> {<<"a", ".crt">>}]
    /\ store.entries["card2"] = Absent
    /\ fsOut.result.success /\ fsOut.result.value = <<>>

====
